---- MODULE Spec2Model ----
(***************************************************************************)
(* A model of the ext4 read path of android-ext4-rs: the inode data reader *)
(* (fast symlink, extents, indirect blocks), the directory decoder, the    *)
(* recursive directory walker and the extraction driver.                   *)
(*                                                                         *)
(* Conventions.  A byte string is a sequence of integers 0..255; Rust's    *)
(* 0-based half-open slice s[a..b] is Slice(s, a, b).  Every fallible      *)
(* operation returns a record [ok, err, val, nio]: val is the value of an  *)
(* Ok result, err the error of an Err result ("Panic" stands for a Rust    *)
(* panic), nio the number of seek and read calls issued on the reader.     *)
(* Integers are TLC integers, so every word of an enumerated image is      *)
(* below 2^31 and every 48-bit block number has a zero high half.          *)
(***************************************************************************)
EXTENDS Integers, Sequences, FiniteSets, TLC

VARIABLES
    img,        \* the image: the bytes every reader handle reads
    block_size, \* Volume.block_size / InodeReader.block_size
    inode,      \* InodeReader.inode: the inode whose data is read
    last,       \* the last read_data / read_symlink call and its result
    position,   \* File.position
    superblock, \* Volume.superblock
    stack,      \* DirectoryWalker.stack
    yielded,    \* the Some(..) values next() has returned, in order
    ended,      \* next() has returned None (or has panicked)
    local,      \* par_bridge: the items each worker has folded so far
    items,      \* Extractor::run: the collected Vec<WalkItem>
    attributes, \* Extractor::run: process_item's result per index of items
    fsconfig,   \* the lines written to the fs_config sidecar
    contexts,   \* the lines written to the file_contexts sidecar
    phase,      \* Extractor::run: the statement it has reached
    handles,    \* the seek position of every reader handle opened so far
    reader,     \* InodeReader.reader of each worker (0: none yet)
    pc,         \* each worker's position inside read_block
    request,    \* each worker's block_num
    fetched,    \* each worker's last read_block result
    volume,     \* the result of Volume::new on the image
    call        \* the last call on the volume or on a decoder, and its result

readVars == <<inode, last, position>>
walkVars == <<superblock, stack, yielded, ended>>
extractVars == <<local, items, attributes, fsconfig, contexts, phase>>
concVars == <<handles, reader, pc, request, fetched>>
callVars == <<volume, call>>
vars == <<img, block_size, readVars, walkVars, extractVars, concVars, callVars>>

(***************************** bounds **************************************)
\* Number of physical blocks of an enumerated image.
MaxBlocks == 6
\* Number of leaf extents of an enumerated extent tree.
MaxExtents == 2
\* Longest read_data request, in bytes.
MaxLength == 10
\* Recursion budget of the extent-tree collection (the code has no cap; a
\* run that exhausts it stands for unbounded recursion).
MaxRecursion == 6

(***************************** helpers *************************************)
Min(a, b) == IF a < b THEN a ELSE b

Slice(s, a, b) == SubSeq(s, a + 1, b)

Zeros(n) == [i \in 1..n |-> 0]

\* Overwrite buf0[at .. at+Len(data0)) with data0 (copy_from_slice, fill, or
\* read_exact into a sub-slice).  Both arguments are bound to their values
\* before the result is built.
Splice(buf0, at, data0) ==
    CHOOSE out \in
        {[i \in 1..Len(buf) |->
             IF i > at /\ i <= at + Len(data) THEN data[i - at] ELSE buf[i]] :
         buf \in {buf0}, data \in {data0}} : TRUE

\* F applied to the value of x: the value is computed once, before F uses it
\* (a let binding of a result that the code goes on to use several times).
Bind(x, F(_)) == CHOOSE out \in {F(v) : v \in {x}} : TRUE

Res(v, n)  == [ok |-> TRUE,  err |-> "",  val |-> v,    nio |-> n]
Fail(e, n) == [ok |-> FALSE, err |-> e,   val |-> <<>>, nio |-> n]

\* u16::from_le_bytes / nom le_u16 at byte offset o.
LeU16(b, o) == b[o + 1] + 256 * b[o + 2]
\* u32::from_le_bytes / nom le_u32 at byte offset o.
LeU32(b, o) == b[o + 1] + 256 * b[o + 2] + 65536 * b[o + 3] + 16777216 * b[o + 4]
\* u32::to_le_bytes.
ToLeBytes(w) ==
    << w % 256, (w \div 256) % 256, (w \div 65536) % 256, (w \div 16777216) % 256 >>

RECURSIVE FlatMapBe(_)
\* The words serialized big-endian (to_be_bytes in place of to_le_bytes).
FlatMapBe(words) ==
    IF words = <<>> THEN <<>>
    ELSE << (Head(words) \div 16777216) % 256, (Head(words) \div 65536) % 256,
            (Head(words) \div 256) % 256, Head(words) % 256 >> \o FlatMapBe(Tail(words))

RECURSIVE FlatMapLe(_)
\* block.iter().flat_map(|&word| word.to_le_bytes()).collect()
FlatMapLe(words) ==
    IF words = <<>> THEN <<>>
    ELSE ToLeBytes(Head(words)) \o FlatMapLe(Tail(words))

(***************************** the reader **********************************)
\* reader.seek(SeekFrom::Start(pos)); reader.read_exact(&mut buf[..n]):
\* two calls on the reader; read_exact fails when the image ends early.
SeekRead(image, pos, n) ==
    IF n = 0 \/ pos + n <= Len(image)
    THEN Res(Slice(image, pos, pos + n), 2)
    ELSE Fail("Io", 2)

\* InodeReader::read_block
ReadBlock(image, bs, block_num) == SeekRead(image, block_num * bs, bs)

(***************************** inode ***************************************)
ROOT_INODE == 2
DIRECT_BLOCKS == 12
INDIRECT_BLOCK_IDX == 12
DOUBLE_INDIRECT_BLOCK_IDX == 13
TRIPLE_INDIRECT_BLOCK_IDX == 14
FAST_SYMLINK_MAX_SIZE == 60
MODE_TYPE_MASK_SHIFT == 4096
FlagExtents == 524288
ADDR_SIZE == 4

\* FileType::from_mode: the top nibble of the 16-bit mode.
FileTypeFromMode(mode) ==
    LET nibble == (mode \div MODE_TYPE_MASK_SHIFT) % 16 IN
    CASE nibble = 1  -> "Fifo"
      [] nibble = 2  -> "CharacterDevice"
      [] nibble = 4  -> "Directory"
      [] nibble = 6  -> "BlockDevice"
      [] nibble = 8  -> "RegularFile"
      [] nibble = 10 -> "SymbolicLink"
      [] nibble = 12 -> "Socket"
      [] OTHER       -> "None"

IsDirectory(ino)   == FileTypeFromMode(ino.mode) = "Directory"
IsRegularFile(ino) == FileTypeFromMode(ino.mode) = "RegularFile"
IsSymlink(ino)     == FileTypeFromMode(ino.mode) = "SymbolicLink"

\* Inode::uses_extents: flags.contains(Flags::Extents)
UsesExtents(ino) == (ino.flags \div FlagExtents) % 2 = 1

\* The file size of an inode.  The enumerated inodes have size_hi = 0, so the
\* 64-bit size is the low word in both branches of inode_size_file.
InodeSize(ino) == ino.size

\* A fast symlink: a symlink whose size is below 60, as read_symlink tests it.
IsFastSymlink(ino) == IsSymlink(ino) /\ InodeSize(ino) < FAST_SYMLINK_MAX_SIZE

(***************************** extents *************************************)
EXT_INIT_MAX_LEN == 32768
ExtentHeaderSize == 12
ExtentSize == 12

\* ExtentHeader::parse: four u16 and one u32, little-endian; no field is
\* validated.
ExtentHeaderParse(b) ==
    [magic |-> LeU16(b, 0), entries_count |-> LeU16(b, 2),
     max_entries_count |-> LeU16(b, 4), depth |-> LeU16(b, 6),
     generation |-> LeU32(b, 8)]

\* Extent::parse
ExtentParse(b) ==
    [first_block |-> LeU32(b, 0), block_count |-> LeU16(b, 4),
     start_hi |-> LeU16(b, 6), start_lo |-> LeU32(b, 8)]

\* ExtentIndex::parse
ExtentIndexParse(b) ==
    [first_block |-> LeU32(b, 0), leaf_lo |-> LeU32(b, 4),
     leaf_hi |-> LeU16(b, 8), padding |-> LeU16(b, 10)]

\* ExtentIndex::leaf_block and Extent::start_block: (hi << 32) | lo, with
\* hi = 0 in every enumerated image.
LeafBlock(index) == index.leaf_lo
StartBlock(extent) == extent.start_lo

IsUnwritten(extent) == extent.block_count > EXT_INIT_MAX_LEN

\* Extent::get_actual_len
GetActualLen(extent) ==
    IF IsUnwritten(extent) THEN extent.block_count - EXT_INIT_MAX_LEN
    ELSE extent.block_count

RECURSIVE ParseExtentTreeFromBlock(_, _, _, _)
RECURSIVE ParseExtentEntries(_, _, _, _, _)
\* The loop of parse_extent_tree_from_block.  st0 is the loop state: the entry
\* index k, the byte offset, and the extents and reader calls collected so far.
ParseExtentEntries(image, bs, block_data, header, st0) ==
    CHOOSE out \in {
        IF st.k >= header.entries_count THEN Res(st.extents, st.nio)
        ELSE IF st.offset + ExtentSize > Len(block_data) THEN Fail("Panic", st.nio)
        ELSE IF header.depth = 0
        THEN ParseExtentEntries(image, bs, block_data, header,
                 [k |-> st.k + 1, offset |-> st.offset + ExtentSize,
                  extents |-> Append(st.extents,
                      ExtentParse(Slice(block_data, st.offset, st.offset + ExtentSize))),
                  nio |-> st.nio])
        ELSE LET index == ExtentIndexParse(
                              Slice(block_data, st.offset, st.offset + ExtentSize))
                 child == ReadBlock(image, bs, LeafBlock(index))
             IN  IF ~child.ok THEN Fail(child.err, st.nio + child.nio)
                 ELSE LET sub == ParseExtentTreeFromBlock(image, bs, child.val,
                                     header.recursion - 1)
                      IN  IF ~sub.ok THEN Fail(sub.err, st.nio + child.nio + sub.nio)
                          ELSE ParseExtentEntries(image, bs, block_data, header,
                                   [k |-> st.k + 1, offset |-> st.offset + ExtentSize,
                                    extents |-> st.extents \o sub.val,
                                    nio |-> st.nio + child.nio + sub.nio])
        : st \in {st0}} : TRUE

\* InodeReader::parse_extent_tree_from_block.  recursion is the remaining
\* recursion budget of the model: the code recurses without a cap.
ParseExtentTreeFromBlock(image, bs, block_data, recursion) ==
    IF recursion = 0 THEN Fail("StackOverflow", 0)
    ELSE IF Len(block_data) < ExtentHeaderSize THEN Fail("Panic", 0)
    ELSE LET header == ExtentHeaderParse(Slice(block_data, 0, ExtentHeaderSize)) IN
         ParseExtentEntries(image, bs, block_data,
             [entries_count |-> header.entries_count, depth |-> header.depth,
              recursion |-> recursion],
             [k |-> 0, offset |-> ExtentHeaderSize, extents |-> <<>>, nio |-> 0])

\* InodeReader::parse_extent_tree: the 15 words of inode.block as 60 bytes.
ParseExtentTree(image, bs, block) ==
    ParseExtentTreeFromBlock(image, bs, FlatMapLe(block), MaxRecursion)


(***************************** inode data reader ***************************)
\* InodeReader::read_fast_symlink: the bytes [offset, offset + buf.len()) of the
\* little-endian serialization of inode.block; the reader is not used.
ReadFastSymlink(ino, offset, buf) ==
    LET inline_data == FlatMapLe(ino.block)
        start == offset
        end == start + Len(buf)
    IN  IF end > Len(inline_data) THEN Fail("Panic", 0)
        ELSE Res(Slice(inline_data, start, end), 0)

RECURSIVE ReadViaExtentsLoop(_, _, _, _, _)
\* The for loop of read_via_extents.  st0 is the loop state: the index k of the
\* next extent, buf, bytes_read and the reader calls made so far.
ReadViaExtentsLoop(image, bs, extents, offset, st0) ==
    CHOOSE out \in {
        IF st.k > Len(extents) THEN Res(st.buf, st.nio)
        ELSE
        LET extent == extents[st.k]
            extent_start == extent.first_block * bs
            extent_len == GetActualLen(extent) * bs
            extent_end == extent_start + extent_len
        IN  IF offset + Len(st.buf) <= extent_start \/ offset >= extent_end
            THEN ReadViaExtentsLoop(image, bs, extents, offset,
                     [st EXCEPT !.k = st.k + 1])
            ELSE
            LET read_start == IF offset > extent_start THEN offset - extent_start ELSE 0
                read_end == Min(extent_len, offset + Len(st.buf) - extent_start)
                to_read == read_end - read_start
                physical_offset == StartBlock(extent) * bs + read_start
            IN  IF st.bytes_read + to_read > Len(st.buf) THEN Fail("Panic", st.nio + 1)
                ELSE
                LET r == SeekRead(image, physical_offset, to_read) IN
                IF ~r.ok THEN Fail(r.err, st.nio + r.nio)
                ELSE IF st.bytes_read + to_read >= Len(st.buf)
                THEN Res(Splice(st.buf, st.bytes_read, r.val), st.nio + r.nio)
                ELSE ReadViaExtentsLoop(image, bs, extents, offset,
                         [k |-> st.k + 1,
                          buf |-> Splice(st.buf, st.bytes_read, r.val),
                          bytes_read |-> st.bytes_read + to_read,
                          nio |-> st.nio + r.nio])
        : st \in {st0}} : TRUE

\* InodeReader::read_via_extents
ReadViaExtents(image, bs, ino, offset, buf) ==
    LET extents == ParseExtentTree(image, bs, ino.block) IN
    IF ~extents.ok THEN Fail(extents.err, extents.nio)
    ELSE ReadViaExtentsLoop(image, bs, extents.val, offset,
             [k |-> 1, buf |-> buf, bytes_read |-> 0, nio |-> extents.nio])

\* InodeReader::read_block_addr
ReadBlockAddr(image, bs, block_num, index) ==
    IF block_num = 0 THEN Res(0, 0)
    ELSE LET block_data == ReadBlock(image, bs, block_num)
             offset == index * ADDR_SIZE
         IN  IF ~block_data.ok THEN Fail(block_data.err, block_data.nio)
             ELSE IF offset + 4 > Len(block_data.val) THEN Fail("Panic", block_data.nio)
             ELSE Res(LeU32(block_data.val, offset), block_data.nio)

\* InodeReader::resolve_block
ResolveBlock(image, bs, inode_block, logical_block) ==
    LET addr_per_block == bs \div 4 IN
    IF logical_block < DIRECT_BLOCKS THEN Res(inode_block[logical_block + 1], 0)
    ELSE
    LET idx1 == logical_block - DIRECT_BLOCKS IN
    IF idx1 < addr_per_block
    THEN ReadBlockAddr(image, bs, inode_block[INDIRECT_BLOCK_IDX + 1], idx1)
    ELSE
    LET idx2 == idx1 - addr_per_block IN
    IF idx2 < addr_per_block * addr_per_block
    THEN LET indirect == ReadBlockAddr(image, bs, inode_block[DOUBLE_INDIRECT_BLOCK_IDX + 1],
                                       idx2 \div addr_per_block)
         IN  IF ~indirect.ok THEN indirect
             ELSE LET a == ReadBlockAddr(image, bs, indirect.val, idx2 % addr_per_block)
                  IN  [a EXCEPT !.nio = a.nio + indirect.nio]
    ELSE
    LET idx3 == idx2 - addr_per_block * addr_per_block
        double == ReadBlockAddr(image, bs, inode_block[TRIPLE_INDIRECT_BLOCK_IDX + 1],
                                idx3 \div (addr_per_block * addr_per_block))
    IN  IF ~double.ok THEN double
        ELSE LET indirect == ReadBlockAddr(image, bs, double.val,
                                 (idx3 \div addr_per_block) % addr_per_block)
             IN  IF ~indirect.ok THEN [indirect EXCEPT !.nio = indirect.nio + double.nio]
                 ELSE LET a == ReadBlockAddr(image, bs, indirect.val, idx3 % addr_per_block)
                      IN  [a EXCEPT !.nio = a.nio + indirect.nio + double.nio]

RECURSIVE ReadViaIndirectLoop(_, _, _, _, _, _)
\* The for loop of read_via_indirect over start_block..end_block.  st0 is the
\* loop state: block_idx, buf, bytes_read and the reader calls made so far.
ReadViaIndirectLoop(image, bs, ino, offset, rng, st0) ==
    CHOOSE out \in {
        IF st.block_idx >= rng.end_block THEN Res(st.buf, st.nio)
        ELSE
        LET block_offset == IF st.block_idx = rng.start_block THEN offset % bs ELSE 0
            to_read == Min(bs - block_offset, Len(st.buf) - st.bytes_read)
            physical_block == ResolveBlock(image, bs, ino.block, st.block_idx)
        IN  IF ~physical_block.ok
            THEN Fail(physical_block.err, st.nio + physical_block.nio)
            ELSE IF physical_block.val = 0
            THEN ReadViaIndirectLoop(image, bs, ino, offset, rng,
                     [block_idx |-> st.block_idx + 1,
                      buf |-> Splice(st.buf, st.bytes_read, Zeros(to_read)),
                      bytes_read |-> st.bytes_read + to_read,
                      nio |-> st.nio + physical_block.nio])
            ELSE
            LET physical_offset == physical_block.val * bs + block_offset
                r == SeekRead(image, physical_offset, to_read)
            IN  IF ~r.ok THEN Fail(r.err, st.nio + physical_block.nio + r.nio)
                ELSE ReadViaIndirectLoop(image, bs, ino, offset, rng,
                         [block_idx |-> st.block_idx + 1,
                          buf |-> Splice(st.buf, st.bytes_read, r.val),
                          bytes_read |-> st.bytes_read + to_read,
                          nio |-> st.nio + physical_block.nio + r.nio])
        : st \in {st0}} : TRUE

\* read_via_indirect with end_block rounded down (a division in place of
\* div_ceil): the partial last block is never read.
ReadViaIndirectFloor(image, bs, ino, offset, buf) ==
    LET start_block == offset \div bs
        end_block == (offset + Len(buf)) \div bs
    IN  ReadViaIndirectLoop(image, bs, ino, offset,
            [start_block |-> start_block, end_block |-> end_block],
            [block_idx |-> start_block, buf |-> buf, bytes_read |-> 0, nio |-> 0])

\* InodeReader::read_via_indirect
ReadViaIndirect(image, bs, ino, offset, buf) ==
    \* offset / block_size: a division by zero panics in every build.
    IF bs = 0 THEN Fail("Panic", 0)
    ELSE
    LET start_block == offset \div bs
        end_block == (offset + Len(buf) + bs - 1) \div bs
    IN  ReadViaIndirectLoop(image, bs, ino, offset,
            [start_block |-> start_block, end_block |-> end_block],
            [block_idx |-> start_block, buf |-> buf, bytes_read |-> 0, nio |-> 0])

\* read_data without the clamp of length to the bytes left in the file.
ReadDataNoClamp(image, bs, ino, offset, length) ==
    IF offset >= InodeSize(ino) THEN Fail("ReadBeyondEof", 0)
    ELSE IF IsFastSymlink(ino) THEN ReadFastSymlink(ino, offset, Zeros(length))
    ELSE IF UsesExtents(ino) THEN ReadViaExtents(image, bs, ino, offset, Zeros(length))
    ELSE ReadViaIndirect(image, bs, ino, offset, Zeros(length))

\* InodeReader::read_data
ReadData(image, bs, ino, offset, length) ==
    LET file_size == InodeSize(ino) IN
    IF offset >= file_size THEN Fail("ReadBeyondEof", 0)
    ELSE
    LET actual_length == Min(length, file_size - offset)
        result == Zeros(actual_length)
    IN  IF IsFastSymlink(ino) THEN ReadFastSymlink(ino, offset, result)
        ELSE IF UsesExtents(ino) THEN ReadViaExtents(image, bs, ino, offset, result)
        ELSE ReadViaIndirect(image, bs, ino, offset, result)

\* InodeReader::read_all
ReadAll(image, bs, ino) == ReadData(image, bs, ino, 0, InodeSize(ino))

\* Volume::read_symlink for a fast symlink: the first file_size bytes of the
\* little-endian serialization of inode.block (the slow branch reads the data).
ReadSymlink(image, bs, ino) ==
    IF ~IsSymlink(ino) THEN Fail("InvalidPath", 0)
    ELSE LET file_size == InodeSize(ino) IN
         IF file_size < FAST_SYMLINK_MAX_SIZE
         THEN Res(Slice(FlatMapLe(ino.block), 0, Min(file_size, 60)), 0)
         ELSE ReadData(image, bs, ino, 0, file_size)


(***************************** file ****************************************)
\* A 64-bit quantity near a multiple of 2^62: [k, d] stands for k * 2^62 + d,
\* with d small.  2^63 is Big(2, 0), i64::MAX is Big(2, -1), i64::MIN is
\* Big(-2, 0) and u64::MAX is Big(4, -1).
Big(k, d) == [k |-> k, d |-> d]
BigAdd(a, b) == Big(a.k + b.k, a.d + b.d)
BigLess(a, b) == a.k < b.k \/ (a.k = b.k /\ a.d < b.d)
FitsI64(a) == ~BigLess(a, Big(-2, 0)) /\ BigLess(a, Big(2, 0))
\* u64 as i64: values from 2^63 on become negative.
AsI64(a) == IF BigLess(a, Big(2, 0)) THEN a ELSE Big(a.k - 4, a.d)
\* The i64 a sum wraps to where overflow is not checked.
WrapI64(a) ==
    IF FitsI64(a) THEN a
    ELSE IF BigLess(a, Big(-2, 0)) THEN Big(a.k + 4, a.d) ELSE Big(a.k - 4, a.d)

\* File::new: position 0.
StartOfFile == Big(0, 0)

\* File::read(buf) at position: [n, data, position, err, nio].
FileRead(image, bs, ino, pos, buf_len) ==
    IF pos >= InodeSize(ino)
    THEN [ok |-> TRUE, err |-> "", val |-> <<>>, nio |-> 0, position |-> pos]
    ELSE LET to_read == Min(buf_len, InodeSize(ino) - pos) IN
         Bind(ReadData(image, bs, ino, pos, to_read), LAMBDA data :
             IF ~data.ok
             THEN [ok |-> FALSE, err |-> data.err, val |-> <<>>, nio |-> data.nio,
                   position |-> pos]
             ELSE [ok |-> TRUE, err |-> "", val |-> data.val, nio |-> data.nio,
                   position |-> pos + Len(data.val)])

RECURSIVE ReadToEnd(_, _, _, _, _)
\* Read::read_to_end / io::copy over a File: read until a read returns 0
\* bytes.  st0 is the File position, the bytes and the reader calls so far.
ReadToEnd(image, bs, ino, buf_len, st0) ==
    CHOOSE out \in {
        IF ~r.ok THEN Fail(r.err, st.nio + r.nio)
        ELSE IF Len(r.val) = 0 THEN Res(st.acc, st.nio + r.nio)
        ELSE ReadToEnd(image, bs, ino, buf_len,
                 [position |-> r.position, acc |-> st.acc \o r.val,
                  nio |-> st.nio + r.nio])
        : r \in {FileRead(image, bs, ino, st0.position, buf_len)}, st \in {st0}} : TRUE

\* File::read(buf) at a 64-bit position: at or past the end of the file it
\* returns 0 bytes and leaves the position alone.
FileReadAt(image, bs, ino, pos, buf_len) ==
    IF ~BigLess(pos, Big(0, InodeSize(ino)))
    THEN [ok |-> TRUE, err |-> "", val |-> <<>>, nio |-> 0, position |-> pos]
    ELSE Bind(FileRead(image, bs, ino, pos.d, buf_len), LAMBDA r :
             [r EXCEPT !.position = Big(0, r.position)])

\* File::seek(pos): new_pos is an i64; SeekFrom::Start casts its u64 offset,
\* End and Current add their i64 offset to the size or the position.  The
\* addition panics on overflow where overflow checks are compiled in and wraps
\* where they are not.  A negative new_pos is InvalidInput.
FileSeek(ino, pos, seek_from, overflow_checks) ==
    LET sum == CASE seek_from.whence = "Start" -> AsI64(seek_from.offset)
                 [] seek_from.whence = "End" ->
                        BigAdd(AsI64(Big(0, InodeSize(ino))), seek_from.offset)
                 [] seek_from.whence = "Current" -> BigAdd(AsI64(pos), seek_from.offset)
        new_pos == WrapI64(sum)
    IN  IF ~FitsI64(sum) /\ overflow_checks
        THEN [ok |-> FALSE, err |-> "Panic", val |-> <<>>, nio |-> 0, position |-> pos]
        ELSE IF BigLess(new_pos, Big(0, 0))
        THEN [ok |-> FALSE, err |-> "InvalidInput", val |-> <<>>, nio |-> 0,
              position |-> pos]
        ELSE [ok |-> TRUE, err |-> "", val |-> new_pos, nio |-> 0, position |-> new_pos]

\* File::read_all: the position is set to 0, then the reader reads the file.
FileReadAll(image, bs, ino) == ReadAll(image, bs, ino) @@ [position |-> StartOfFile]

(***************************** volume **************************************)
\* Superblock::block_group_count
BlockGroupCount(sb) ==
    (sb.blocks_count \div sb.blocks_per_group)
        + (IF sb.blocks_count % sb.blocks_per_group # 0 THEN 1 ELSE 0)

\* Superblock::descriptor_size: desc_size, and MIN_SIZE when it is smaller.
DescriptorSize(sb) == IF sb.desc_size < 32 THEN 32 ELSE sb.desc_size

\* BlockGroupDescriptor::parse: the low half of the inode table's block is the
\* third u32; the high half is decoded when 32 more bytes follow the first 32.
BlockGroupDescriptorParse(b) ==
    [inode_table_first_block_lo |-> LeU32(b, 8),
     inode_table_first_block_hi |-> IF Len(b) - 32 >= 32 THEN LeU32(b, 40) ELSE 0]

\* BlockGroupDescriptor::inode_table_first_block: (hi << 32) | lo, with hi = 0
\* in every enumerated image.
InodeTableFirstBlock(desc) == desc.inode_table_first_block_lo

\* read_block_group_descriptor without its test of bg_index.
ReadBlockGroupDescriptorUnchecked(image, bs, sb, bg_index) ==
    LET desc_size == DescriptorSize(sb)
        first_block == IF bs = 1024 THEN 2 ELSE 1
        offset == first_block * bs + bg_index * desc_size
    IN  Bind(SeekRead(image, offset, desc_size), LAMBDA buffer :
            IF ~buffer.ok THEN buffer
            ELSE Res(BlockGroupDescriptorParse(buffer.val), buffer.nio))

\* Volume::read_block_group_descriptor
ReadBlockGroupDescriptor(image, bs, sb, bg_index) ==
    IF sb.blocks_per_group = 0 THEN Fail("Panic", 0)
    ELSE IF bg_index >= BlockGroupCount(sb) THEN Fail("InvalidBlockGroup", 0)
    ELSE LET desc_size == DescriptorSize(sb)
             first_block == IF bs = 1024 THEN 2 ELSE 1
             offset == first_block * bs + bg_index * desc_size
         IN  Bind(SeekRead(image, offset, desc_size), LAMBDA buffer :
                 IF ~buffer.ok THEN buffer
                 ELSE Res(BlockGroupDescriptorParse(buffer.val), buffer.nio))

(************************** extended attributes ****************************)
XAttrHeaderSize == 32
XAttrIbodyHeaderSize == 4
XAttrEntryHeaderSize == 16
\* 0xEA020000, little-endian
XAttrMagicBytes == << 0, 0, 2, 234 >>
XAttrNameIndexes == {0, 1, 2, 3, 4, 6, 7, 8}
ReplacementChar == << 239, 191, 189 >>

\* XAttrEntryHeader::parse at pos: the 16-byte header; a name_index outside
\* the XAttrNameIndex enum is a parse error.
XAttrEntryHeaderParse(bytes, pos) ==
    IF bytes[pos + 2] \notin XAttrNameIndexes THEN Fail("Parse", 0)
    ELSE Res([name_len |-> bytes[pos + 1], name_index |-> bytes[pos + 2],
              value_offs |-> LeU16(bytes, pos + 2),
              value_inum |-> LeU32(bytes, pos + 4),
              value_size |-> LeU32(bytes, pos + 8),
              hash |-> LeU32(bytes, pos + 12)], 0)

IsEndOfEntries(header) ==
    header.name_len = 0 /\ header.name_index = 0
        /\ header.value_offs = 0 /\ header.value_inum = 0

RECURSIVE FromUtf8Lossy(_)
\* String::from_utf8_lossy on a name of ASCII bytes and bytes 0xFF: ASCII is
\* kept, every 0xFF (never valid in UTF-8) becomes U+FFFD, three bytes.
FromUtf8Lossy(bytes) ==
    IF bytes = <<>> THEN <<>>
    ELSE (IF Head(bytes) < 128 THEN << Head(bytes) >> ELSE ReplacementChar)
             \o FromUtf8Lossy(Tail(bytes))

\* XAttrEntry::entry_size: header and name, rounded up to a multiple of 4.
XAttrEntrySize(name) == ((XAttrEntryHeaderSize + Len(name) + 3) \div 4) * 4

RECURSIVE ParseInlineXattrEntries(_, _)
\* Inode::parse_inline_xattr_entries: st0 holds pos and the entries pushed.
ParseInlineXattrEntries(raw_data, st0) ==
    CHOOSE out \in {
        IF st.pos + XAttrEntryHeaderSize > Len(raw_data) THEN st.xattrs
        ELSE
        LET start_offset == st.pos + XAttrEntryHeaderSize
            header == XAttrEntryHeaderParse(raw_data, st.pos)
        IN  IF ~header.ok THEN st.xattrs
            ELSE IF IsEndOfEntries(header.val) THEN st.xattrs
            ELSE IF start_offset + header.val.name_len > Len(raw_data) THEN st.xattrs
            ELSE
            LET name == FromUtf8Lossy(
                            Slice(raw_data, start_offset,
                                  start_offset + header.val.name_len))
                value_start_offset == header.val.value_offs
                value_end_offset == value_start_offset + header.val.value_size
                value == IF header.val.value_inum = 0 /\ header.val.value_size > 0
                              /\ value_end_offset <= Len(raw_data)
                         THEN Slice(raw_data, value_start_offset, value_end_offset)
                         ELSE <<>>
            IN  ParseInlineXattrEntries(raw_data,
                    [pos |-> st.pos + XAttrEntrySize(name),
                     xattrs |-> Append(st.xattrs,
                         [header |-> header.val, name |-> name, value |-> value])])
        : st \in {st0}} : TRUE

\* The in-inode part of Inode::parse: inline_data are the bytes of the inode
\* from 128 + extra_isize on.
InlineXattrs(inline_data) ==
    IF Len(inline_data) < 4 THEN Res(<<>>, 0)
    ELSE IF Slice(inline_data, 0, 4) # XAttrMagicBytes THEN Fail("Parse", 0)
    ELSE IF Len(inline_data) > XAttrIbodyHeaderSize
    THEN Res(ParseInlineXattrEntries(
                 Slice(inline_data, XAttrIbodyHeaderSize, Len(inline_data)),
                 [pos |-> 0, xattrs |-> <<>>]), 0)
    ELSE Res(<<>>, 0)

RECURSIVE ParseXattrs(_, _, _, _)
\* parse_xattrs.  actual_offset is a usize: when value_offs + adjustment is
\* negative the cast wraps it to 2^64 + (value_offs + adjustment), which is
\* beyond every buffer length, and adding value_size to it overflows when
\* value_size >= -(value_offs + adjustment): a panic in a build with overflow
\* checks, a wrap in a build without them.
ParseXattrs(raw_data, value_offset_adjustment, overflow_checks, st0) ==
    CHOOSE out \in {
        IF st.pos + XAttrEntryHeaderSize > Len(raw_data) THEN Res(st.xattrs, 0)
        ELSE
        LET header == XAttrEntryHeaderParse(raw_data, st.pos) IN
        IF ~header.ok THEN Fail("Parse", 0)
        ELSE IF IsEndOfEntries(header.val) THEN Res(st.xattrs, 0)
        ELSE IF st.pos + XAttrEntryHeaderSize + header.val.name_len > Len(raw_data)
        THEN Fail("Parse", 0)
        ELSE
        LET name == FromUtf8Lossy(
                        Slice(raw_data, st.pos + XAttrEntryHeaderSize,
                              st.pos + XAttrEntryHeaderSize + header.val.name_len))
            signed_offset == header.val.value_offs + value_offset_adjustment
            wrapped == signed_offset < 0
            overflow == wrapped /\ header.val.value_size >= -signed_offset
            in_value == header.val.value_inum = 0 /\ header.val.value_size > 0
            value == IF in_value /\ ~wrapped
                          /\ signed_offset < Len(raw_data)
                          /\ signed_offset + header.val.value_size <= Len(raw_data)
                     THEN Slice(raw_data, signed_offset,
                                signed_offset + header.val.value_size)
                     ELSE <<>>
        IN  IF in_value /\ overflow /\ overflow_checks THEN Fail("Panic", 0)
            ELSE ParseXattrs(raw_data, value_offset_adjustment, overflow_checks,
                     [pos |-> st.pos + XAttrEntrySize(name),
                      xattrs |-> Append(st.xattrs,
                          [header |-> header.val, name |-> name, value |-> value])])
        : st \in {st0}} : TRUE

\* parse_xattrs_from_block
ParseXattrsFromBlock(block_data, overflow_checks) ==
    IF Len(block_data) < XAttrHeaderSize THEN Res(<<>>, 0)
    ELSE IF Slice(block_data, 0, 4) # XAttrMagicBytes THEN Fail("Parse", 0)
    ELSE
    LET entries_start == ((XAttrHeaderSize + 3) \div 4) * 4
    IN  IF entries_start >= Len(block_data) THEN Res(<<>>, 0)
        ELSE ParseXattrs(Slice(block_data, entries_start, Len(block_data)),
                         -entries_start, overflow_checks,
                         [pos |-> 0, xattrs |-> <<>>])

\* Display for XAttrNameIndex: the prefix of a name index, as bytes.
NamePrefix(name_index) ==
    CASE name_index = 0 -> <<>>
      [] name_index = 1 -> << 117, 115, 101, 114, 46 >>
      [] name_index = 2 -> << 115, 121, 115, 116, 101, 109, 46, 112, 111, 115, 105, 120, 95, 97, 99, 108, 95, 97, 99, 99, 101, 115, 115 >>
      [] name_index = 3 -> << 115, 121, 115, 116, 101, 109, 46, 112, 111, 115, 105, 120, 95, 97, 99, 108, 95, 100, 101, 102, 97, 117, 108, 116 >>
      [] name_index = 4 -> << 116, 114, 117, 115, 116, 101, 100, 46 >>
      [] name_index = 6 -> << 115, 101, 99, 117, 114, 105, 116, 121, 46 >>
      [] name_index = 7 -> << 115, 121, 115, 116, 101, 109, 46 >>
      [] name_index = 8 -> << 115, 121, 115, 116, 101, 109, 46, 114, 105, 99, 104, 97, 99, 108 >>

\* XAttrNameIndex::is_acl
IsAcl(name_index) == name_index \in {2, 3, 8}

\* XAttrEntry::full_name
FullName(entry) ==
    IF IsAcl(entry.header.name_index) THEN NamePrefix(entry.header.name_index)
    ELSE NamePrefix(entry.header.name_index) \o entry.name

SecuritySelinux == << 115, 101, 99, 117, 114, 105, 116, 121, 46, 115, 101, 108, 105, 110, 117, 120 >>
SecurityCapability == << 115, 101, 99, 117, 114, 105, 116, 121, 46, 99, 97, 112, 97, 98, 105, 108, 105, 116, 121 >>

\* XAttrEntry::is_selinux, XAttrEntry::is_capability
IsSelinux(entry) == FullName(entry) = SecuritySelinux
IsCapability(entry) == FullName(entry) = SecurityCapability

NoneOpt == [some |-> FALSE]
SomeOpt(v) == [some |-> TRUE, val |-> v]

\* XAttrEntry::selinux_context: the value without one trailing NUL, as a
\* lossy UTF-8 string.
SelinuxContext(entry) ==
    IF ~IsSelinux(entry) THEN NoneOpt
    ELSE IF entry.value # <<>> /\ entry.value[Len(entry.value)] = 0
    THEN SomeOpt(FromUtf8Lossy(SubSeq(entry.value, 1, Len(entry.value) - 1)))
    ELSE SomeOpt(FromUtf8Lossy(entry.value))

\* Iterator::find_map: the first Some that F gives on the sequence.
FindMap(seq, F(_)) ==
    LET hits == {i \in 1..Len(seq) : F(seq[i]).some}
    IN  IF hits = {} THEN NoneOpt
        ELSE F(seq[CHOOSE i \in hits : \A j \in hits : i <= j])

\* Inode::parse: the fixed little-endian layout up to project_id (160 bytes),
\* then, when extra_isize > 0, the check of the in-inode xattr header and the
\* decoding of the attributes behind it.  The fields the read path and the
\* walker use are kept; Flags::from_bits_truncate keeps the Extents bit.
InodeParse(bytes) ==
    IF Len(bytes) < 160 THEN Fail("Parse", 0)
    ELSE
    LET parsed == [mode |-> LeU16(bytes, 0), size |-> LeU32(bytes, 4),
                   flags |-> LeU32(bytes, 32),
                   block |-> [i \in 1..15 |-> LeU32(bytes, 40 + 4 * (i - 1))],
                   inline_xattrs |-> <<>>]
        extra_isize == LeU16(bytes, 128)
        start_offset == 128 + extra_isize
    IN  IF extra_isize = 0 THEN Res(parsed, 0)
        ELSE IF start_offset > Len(bytes) THEN Fail("Parse", 0)
        ELSE Bind(InlineXattrs(Slice(bytes, start_offset, Len(bytes))), LAMBDA xattrs :
                 IF ~xattrs.ok THEN Fail("Parse", 0)
                 ELSE Res([parsed EXCEPT !.inline_xattrs = xattrs.val], 0))

\* Volume::read_inode
ReadInode(image, bs, sb, inode_num) ==
    IF inode_num = 0 THEN Fail("InvalidInode", 0)
    ELSE IF sb.inodes_per_group = 0 THEN Fail("Panic", 0)
    ELSE
    LET bg_index == (inode_num - 1) \div sb.inodes_per_group
        inode_index == (inode_num - 1) % sb.inodes_per_group
    IN  Bind(ReadBlockGroupDescriptor(image, bs, sb, bg_index), LAMBDA bg_desc :
            IF ~bg_desc.ok THEN bg_desc
            ELSE
            LET offset == InodeTableFirstBlock(bg_desc.val) * bs
                              + inode_index * sb.inode_size
            IN  Bind(SeekRead(image, offset, sb.inode_size), LAMBDA buffer :
                    IF ~buffer.ok THEN Fail(buffer.err, bg_desc.nio + buffer.nio)
                    ELSE [InodeParse(buffer.val) EXCEPT
                              !.nio = bg_desc.nio + buffer.nio]))

(***************************** directory ***********************************)
DirEntryHeaderSize == 8
MAX_NAME_LEN == 255

RECURSIVE ParseEntriesLoop(_, _)
\* The while loop of Directory::parse_entries.  st0 is the loop state: the byte
\* offset and the entries pushed so far.  name holds the name_len bytes that
\* name_str reads: the bytes copied from data, or zeros when they do not fit.
ParseEntriesLoop(data, st0) ==
    CHOOSE out \in {
        IF st.offset >= Len(data) THEN st.entries
        ELSE IF st.offset + DirEntryHeaderSize > Len(data) THEN st.entries
        ELSE
        LET inode_num == LeU32(data, st.offset)
            entry_len == LeU16(data, st.offset + 4)
        IN  IF entry_len = 0 \/ entry_len > Len(data) - st.offset THEN st.entries
            ELSE IF inode_num = 0
            THEN ParseEntriesLoop(data, [st EXCEPT !.offset = st.offset + entry_len])
            ELSE
            LET name_len == data[st.offset + 7]
                inode_type == data[st.offset + 8]
                actual_name_len == Min(MAX_NAME_LEN, name_len)
                name == IF st.offset + DirEntryHeaderSize + actual_name_len <= Len(data)
                        THEN Slice(data, st.offset + DirEntryHeaderSize,
                                   st.offset + DirEntryHeaderSize + actual_name_len)
                        ELSE Zeros(actual_name_len)
            IN  ParseEntriesLoop(data,
                    [offset |-> st.offset + entry_len,
                     entries |-> Append(st.entries,
                         [inode |-> inode_num, entry_len |-> entry_len,
                          name_len |-> name_len, inode_type |-> inode_type,
                          name |-> name])])
        : st \in {st0}} : TRUE

\* Directory::parse_entries: the whole content of the directory inode, decoded.
ParseEntries(image, bs, ino) ==
    Bind(ReadAll(image, bs, ino), LAMBDA data :
        IF ~data.ok THEN Fail(data.err, data.nio)
        ELSE Res(ParseEntriesLoop(data.val, [offset |-> 0, entries |-> <<>>]), data.nio))

\* Directory::new keeping only the last component of the path it is given.
DirectoryNewBaseName(image, bs, ino, path) ==
    IF ~IsDirectory(ino) THEN Fail("NotADirectory", 0)
    ELSE Bind(ParseEntries(image, bs, ino), LAMBDA entries :
             IF ~entries.ok THEN Fail(entries.err, entries.nio)
             ELSE Res([path |-> IF path = <<>> THEN path ELSE << path[Len(path)] >>,
                       inode |-> ino, entries |-> entries.val],
                      entries.nio))

\* Directory::new: the entries are decoded when the Directory is built.
DirectoryNew(image, bs, ino, path) ==
    IF ~IsDirectory(ino) THEN Fail("NotADirectory", 0)
    ELSE Bind(ParseEntries(image, bs, ino), LAMBDA entries :
             IF ~entries.ok THEN Fail(entries.err, entries.nio)
             ELSE Res([path |-> path, inode |-> ino, entries |-> entries.val],
                      entries.nio))

\* DirectoryEntry::name_str: the first name_len bytes of name, or "" when they
\* are not UTF-8.  Names are byte strings; a byte above 127 stands for an
\* invalid encoding (the enumerated names hold no multi-byte character).
NameStr(entry) ==
    IF \A i \in 1..Len(entry.name) : entry.name[i] < 128 THEN entry.name ELSE <<>>

(***************************** walker **************************************)
Dot == <<46>>
DotDot == <<46, 46>>

\* Path::join: a path is the sequence of its components below "/"; a name
\* that starts with "/" replaces the path.
PathJoin(path, name) ==
    IF name # <<>> /\ name[1] = 47 THEN <<name>> ELSE Append(path, name)

\* DirectoryWalker::new with the entries of the first frame in reverse.
DirectoryWalkerNewReversed(directory) ==
    << [path |-> directory.path,
        entries |-> [k \in 1..Len(directory.entries) |->
                        directory.entries[Len(directory.entries) + 1 - k]]] >>

\* DirectoryWalker::new: one frame holding the directory's path and entries.
DirectoryWalkerNew(directory) ==
    << [path |-> directory.path, entries |-> directory.entries] >>

NoneItem == [kind |-> "None"]
PanicItem == [kind |-> "Panic"]
ErrItem(e) == [kind |-> "Err", err |-> e]
OkItem(path, entry, ino) == [kind |-> "Ok", path |-> path, entry |-> entry, inode |-> ino]

RECURSIVE WalkerNext(_, _, _, _)
\* DirectoryWalker::next: the walker's stack after the call and what the call
\* returned: None, Some(Err(e)) or Some(Ok(item)).  A sub-directory that
\* Directory::new cannot build makes the call return None (.ok()?).  The
\* xattrs of an item never fail the call (unwrap_or_default).
WalkerNext(image, bs, sb, stack0) ==
    CHOOSE out \in {
        IF st = <<>> THEN [stack |-> st, item |-> NoneItem]
        ELSE
        LET current == st[Len(st)] IN
        IF current.entries = <<>>
        THEN WalkerNext(image, bs, sb, SubSeq(st, 1, Len(st) - 1))
        ELSE
        LET entry == current.entries[Len(current.entries)]
            popped == [st EXCEPT ![Len(st)].entries =
                          SubSeq(current.entries, 1, Len(current.entries) - 1)]
            entry_name == NameStr(entry)
        IN  IF entry_name = Dot \/ entry_name = DotDot
            THEN WalkerNext(image, bs, sb, popped)
            ELSE
            LET item_path == PathJoin(current.path, entry_name) IN
            Bind(ReadInode(image, bs, sb, entry.inode), LAMBDA ino :
                IF ~ino.ok
                THEN [stack |-> popped,
                      item |-> IF ino.err = "Panic" THEN PanicItem ELSE ErrItem(ino.err)]
                ELSE IF IsDirectory(ino.val)
                THEN Bind(DirectoryNew(image, bs, ino.val, item_path), LAMBDA directory :
                         IF ~directory.ok
                         THEN [stack |-> popped,
                               item |-> IF directory.err = "Panic" THEN PanicItem
                                        ELSE NoneItem]
                         ELSE [stack |-> Append(popped,
                                            [path |-> directory.val.path,
                                             entries |-> directory.val.entries]),
                               item |-> OkItem(item_path, entry, ino.val)])
                ELSE [stack |-> popped, item |-> OkItem(item_path, entry, ino.val)])
        : st \in {stack0}} : TRUE

(***************************** enumerated inputs ***************************)
\* The block sizes of the enumerated images.  A real block size is
\* 1024 << log_block_size; the reader only divides and multiplies by it, so a
\* block of four bytes (one address per indirect block) exercises the same
\* arithmetic on images TLC can enumerate.
BlockSizes == {4}

RegMode == 33188
SymlinkMode == 41471
DirMode == 16877
ExtentMagic == 62218

\* The byte at absolute position p of a data block: never zero, and different
\* at any two positions of an image.
Fill(p) == (p % 100) + 1

Pad15(words) == words \o Zeros(15 - Len(words))

RECURSIVE ExtentRecords(_)
ExtentRecords(exts) ==
    IF exts = <<>> THEN <<>>
    ELSE << Head(exts).first_block,
            Head(exts).block_count + 65536 * Head(exts).start_hi,
            Head(exts).start_lo >> \o ExtentRecords(Tail(exts))

\* inode.block of an extents inode whose root is a leaf holding exts.
ExtentRoot(exts) ==
    Pad15(<< ExtentMagic + 65536 * Len(exts), 4, 0 >> \o ExtentRecords(exts))

\* An image of MaxBlocks blocks whose block ptr_block holds the words
\* ptr_words (an indirect block) and whose other bytes are Fill.
MkImage(bs, ptr_block, ptr_words) ==
    [i \in 1..(MaxBlocks * bs) |->
        LET p == i - 1 IN
        IF p \div bs = ptr_block /\ (p % bs) < 4 * Len(ptr_words)
        THEN ToLeBytes(ptr_words[((p % bs) \div 4) + 1])[(p % 4) + 1]
        ELSE Fill(p)]

\* The leaf extents of the enumerated trees: written and unwritten, one or two
\* blocks long, inside the image or (start MaxBlocks) past its end.
ExtentChoices ==
    [first_block : 0..2, block_count : {1, 2, EXT_INIT_MAX_LEN + 1},
     start_hi : {0}, start_lo : {1, 3}]
    \cup {[first_block |-> 0, block_count |-> 1, start_hi |-> 0, start_lo |-> MaxBlocks]}

RECURSIVE SortedLists(_)
\* The extent lists of length n that are strictly sorted by first_block and do
\* not overlap in logical space, as ext4 keeps them.
SortedLists(n) ==
    IF n = 0 THEN {<<>>}
    ELSE {l \in {Append(l0, e) : l0 \in SortedLists(n - 1), e \in ExtentChoices} :
             \A k \in 1..(Len(l) - 1) :
                 l[k].first_block + GetActualLen(l[k]) <= l[k + 1].first_block}

ExtentLists == UNION {SortedLists(n) : n \in 0..MaxExtents}

\* inode.block of a fast symlink: 60 different bytes.
SymlinkBlock == [i \in 1..15 |-> LeU32([j \in 1..60 |-> 39 + j], 4 * (i - 1))]

MkInode(mode, size, flags, block) ==
    [mode |-> mode, size |-> size, flags |-> flags, block |-> block,
     inline_xattrs |-> <<>>]

SymlinkInputs(bs) ==
    {[inode |-> MkInode(SymlinkMode, size, flags, SymlinkBlock),
      img |-> MkImage(bs, 0, <<>>)] :
        size \in {0, 1, 6, FAST_SYMLINK_MAX_SIZE - 1}, flags \in {0, FlagExtents}}

ExtentInputs(bs) ==
    {[inode |-> MkInode(RegMode, size, FlagExtents, ExtentRoot(exts)),
      img |-> MkImage(bs, 0, <<>>)] :
        size \in {0, 2 * bs + 1, 4 * bs}, exts \in ExtentLists}

\* Indirect inodes: three direct pointers and a single-indirect block (block
\* 5 of the image) holding one pointer; 0 is a hole, MaxBlocks is past the end.
IndirectInputs(bs) ==
    {[inode |-> MkInode(RegMode, size, 0,
                    <<d0, d1, d2>> \o Zeros(9) \o <<ind, 0, 0>>),
      img |-> MkImage(bs, 5, <<w>>)] :
        size \in {0, 3 * bs, DIRECT_BLOCKS * bs + 3},
        d0 \in {0, 1}, d1 \in {0, 2}, d2 \in {0, 3}, ind \in {0, 5},
        w \in {0, 4, MaxBlocks}}

ReadInputs(bs) == SymlinkInputs(bs) \cup ExtentInputs(bs) \cup IndirectInputs(bs)

(***************************** enumerated trees ****************************)
\* The block size of the enumerated directory trees (see BlockSizes).
WalkBlockSizes == {64}

\* Their superblock: one block group of eight 256-byte inodes whose table
\* starts at block 2; the data blocks follow the table.
WalkSuperblock(bs) ==
    [inodes_per_group |-> 8, inode_size |-> 256, desc_size |-> 32,
     blocks_count |-> 2 + (8 * 256) \div bs + 5, blocks_per_group |-> 32768]

DataBlock(bs, k) == 2 + (8 * 256) \div bs + k

PadTo(s, n) == s \o Zeros(n - Len(s))
U16Bytes(v) == << v % 256, (v \div 256) % 256 >>
LeWords(ws) ==
    [j \in 1..(4 * Len(ws)) |-> ToLeBytes(ws[((j - 1) \div 4) + 1])[((j - 1) % 4) + 1]]

RECURSIVE Concat(_)
Concat(ss) == IF ss = <<>> THEN <<>> ELSE Head(ss) \o Concat(Tail(ss))

\* The bytes of one entry: header, name, padding to a multiple of 4.
XAttrEntryBytes(name, name_index, value_offs, value_inum, value_size) ==
    PadTo(<< Len(name), name_index >> \o U16Bytes(value_offs)
              \o ToLeBytes(value_inum) \o ToLeBytes(value_size) \o ToLeBytes(0)
              \o name,
          XAttrEntrySize(name))

\* The 256 bytes of an on-disk inode: extra_isize = 32 and, behind the xattr
\* magic, the bytes of the in-inode attribute entries and values (region).
InodeBytesWith(ino, region) ==
    PadTo(U16Bytes(ino.mode) \o U16Bytes(0) \o ToLeBytes(ino.size) \o Zeros(24)
          \o ToLeBytes(ino.flags) \o Zeros(4) \o LeWords(ino.block) \o Zeros(28)
          \o U16Bytes(32) \o Zeros(30) \o <<0, 0, 2, 234>> \o region, 256)

\* An inode without in-inode attributes.
InodeBytes(ino) == InodeBytesWith(ino, <<>>)

DirEntryBytes(e, rec_len) ==
    PadTo(ToLeBytes(e.ino) \o U16Bytes(rec_len) \o <<Len(e.name), e.ftype>> \o e.name,
          rec_len)

RECURSIVE DirBlock(_, _)
\* A directory block of room bytes: every slot is as long as its name needs,
\* the last one takes what is left.
DirBlock(es, room) ==
    IF Len(es) = 1 THEN DirEntryBytes(es[1], room)
    ELSE LET rec_len == 8 + 4 * ((Len(Head(es).name) + 3) \div 4)
         IN  DirEntryBytes(Head(es), rec_len) \o DirBlock(Tail(es), room - rec_len)

Slot(ino, name, ftype) == [ino |-> ino, name |-> name, ftype |-> ftype]

\* The inodes the slots of the root directory may name.
AllLive == {3, 4, 7, 8, 99}

\* A vfs_cap_data value: magic_etc (VFS_CAP_REVISION_2) and two pairs of
\* permitted and inheritable words.
VfsCapBytes(permitted_lo, permitted_hi) ==
    LeWords(<< 33554432, permitted_lo, 0, permitted_hi, 0 >>)

\* The in-inode attribute bytes of a labelled inode: one entry, the
\* terminator, the value.  "selinux" is security.selinux = "u:r\0", "caps" is
\* security.capability with permitted[0] = 0x2000.
XattrRegion(kind) ==
    CASE kind = "none" -> <<>>
      [] kind = "selinux" ->
            XAttrEntryBytes(<< 115, 101, 108, 105, 110, 117, 120 >>, 6, 40, 0, 4)
                \o Zeros(XAttrEntryHeaderSize) \o << 117, 58, 114, 0 >>
      [] kind = "caps" ->
            XAttrEntryBytes(<< 99, 97, 112, 97, 98, 105, 108, 105, 116, 121 >>, 6, 44, 0, 20)
                \o Zeros(XAttrEntryHeaderSize) \o VfsCapBytes(8192, 0)

\* The tree of a scenario sc:
\*   /  (inode 2, two blocks):  .  ..  a  <erased>  d  |  z  s
\*   /d (inode 4):              .  ..  f  e
\*   /d/e (inode 6):            .  ..  g (names inode sc.g_ino: 3, a hard link
\*                              to a, or the directory 6, 4 or 2 above it)
\* a (inode 3) and f (inode 5) are files of sc.a_size and sc.f_size bytes (a
\* is a regular file, f has the mode sc.f_mode), s (inode 7) is a fast symlink, z names inode sc.z_ino: inode 8, a
\* regular file, or an inode of a block group the image does not have.  A
\* directory of kind "io" points past the end of the image and one of kind
\* "empty" has size 0.  The inodes of a and d carry the in-inode attributes
\* sc.xattr; a slot of the root whose inode is not in sc.live is erased.
WalkImage(bs, sc) ==
    LET D(k) == DataBlock(bs, k)
        Live(n) == IF n \in sc.live THEN n ELSE 0
        Dir(kind, blk) ==
            CASE kind = "ok"    -> MkInode(DirMode, bs, 0, Pad15(<<blk>>))
              [] kind = "io"    -> MkInode(DirMode, bs, 0, Pad15(<<D(5)>>))
              [] kind = "empty" -> MkInode(DirMode, 0, 0, Pad15(<<blk>>))
        table == << MkInode(0, 0, 0, Zeros(15)),
                    MkInode(DirMode, 2 * bs, 0, Pad15(<<D(0), D(1)>>)),
                    MkInode(RegMode, sc.a_size, 0, Pad15(<<D(4)>>)),
                    Dir(sc.d_kind, D(2)),
                    MkInode(sc.f_mode, sc.f_size, 0, Pad15(<<D(4)>>)),
                    Dir(sc.e_kind, D(3)),
                    MkInode(SymlinkMode, 3, 0, SymlinkBlock),
                    MkInode(RegMode, 5, 0, Pad15(<<D(4)>>)) >>
    IN  Zeros(bs)
        \o PadTo(Zeros(8) \o ToLeBytes(2) \o Zeros(20), bs)
        \o Concat([i \in 1..8 |->
                      InodeBytesWith(table[i],
                          IF i \in {3, 4} THEN XattrRegion(sc.xattr) ELSE <<>>)])
        \o DirBlock(<< Slot(2, Dot, 2), Slot(2, DotDot, 2), Slot(Live(3), <<97>>, 1),
                       Slot(0, <<120>>, 1), Slot(Live(4), <<100>>, 2) >>, bs)
        \o DirBlock(<< Slot(Live(sc.z_ino), <<122>>, 1), Slot(Live(7), <<115>>, 7) >>, bs)
        \o DirBlock(<< Slot(4, Dot, 2), Slot(2, DotDot, 2), Slot(5, <<102>>, 1),
                       Slot(6, <<101>>, 2) >>, bs)
        \o DirBlock(<< Slot(6, Dot, 2), Slot(4, DotDot, 2),
                       Slot(sc.g_ino, <<103>>, IF sc.g_ino = 3 THEN 1 ELSE 2) >>, bs)
        \o [i \in 1..bs |-> Fill(i)]

WalkScenarios ==
    [a_size : {0, 5}, f_size : {0, 5}, d_kind : {"ok", "io", "empty"},
     e_kind : {"ok", "io"}, z_ino : {8, 99}, g_ino : {3}, f_mode : {RegMode}, xattr : {"none"}, live : {AllLive}]

(***************************** reading an inode ****************************)
NoCall == [op |-> "none", offset |-> 0, length |-> 0, res |-> Fail("", 0)]
NoSuperblock ==
    [inodes_per_group |-> 0, inode_size |-> 0, desc_size |-> 0,
     blocks_count |-> 0, blocks_per_group |-> 0]

\* The variables of the walker, of the extraction driver and of the
\* concurrent readers while they are not in use.
WalkIdle == superblock = NoSuperblock /\ stack = <<>> /\ yielded = <<>> /\ ended = FALSE
ExtractIdle ==
    /\ local = <<>> /\ items = <<>> /\ attributes = <<>>
    /\ fsconfig = <<>> /\ contexts = <<>> /\ phase = "idle"
ConcIdle ==
    handles = <<>> /\ reader = <<>> /\ pc = <<>> /\ request = <<>> /\ fetched = <<>>

\* No Volume has been constructed and no call has been made.
NoVolume == [state |-> "none", err |-> ""]
NoOp == [op |-> "none", arg |-> <<>>, res |-> Fail("", 0)]
CallIdle == volume = NoVolume /\ call = NoOp

InitRead ==
    /\ block_size \in BlockSizes
    /\ \E in \in ReadInputs(block_size) : inode = in.inode /\ img = in.img
    /\ last = NoCall /\ position = StartOfFile
    /\ WalkIdle /\ ExtractIdle /\ ConcIdle /\ CallIdle

\* read_data leaves the InodeReader as it found it (inode and block_size are
\* never assigned, and every read path seeks before it reads), so a call is
\* explored from the reader as constructed.
Fresh == last = NoCall

\* InodeReader::read_data(offset, length)
ReadDataCall ==
    /\ Fresh
    /\ \E offset \in 0..(InodeSize(inode) + 1), length \in 0..MaxLength :
        last' = [op |-> "read_data", offset |-> offset, length |-> length,
                 res |-> ReadData(img, block_size, inode, offset, length)]
    /\ UNCHANGED <<img, block_size, callVars, inode, position, walkVars, extractVars,
                 concVars>>

\* InodeReader::read_all()
ReadAllCall ==
    /\ Fresh
    /\ last' = [op |-> "read_all", offset |-> 0, length |-> InodeSize(inode),
                res |-> ReadAll(img, block_size, inode)]
    /\ UNCHANGED <<img, block_size, callVars, inode, position, walkVars, extractVars,
                 concVars>>

\* Volume::read_symlink(inode)
ReadSymlinkCall ==
    /\ Fresh
    /\ last' = [op |-> "read_symlink", offset |-> 0, length |-> InodeSize(inode),
                res |-> ReadSymlink(img, block_size, inode)]
    /\ UNCHANGED <<img, block_size, callVars, inode, position, walkVars, extractVars,
                 concVars>>

\* A File opened on the inode and read to its end with a buffer of buf_len
\* bytes (io::copy and read_to_string in the extraction driver).
ReadToEndCall ==
    /\ Fresh
    /\ \E buf_len \in 1..MaxLength :
        last' = [op |-> "read_to_end", offset |-> 0, length |-> buf_len,
                 res |-> ReadToEnd(img, block_size, inode, buf_len,
                            [position |-> 0, acc |-> <<>>, nio |-> 0])]
    /\ UNCHANGED <<img, block_size, callVars, inode, position, walkVars, extractVars,
                 concVars>>

NextRead == ReadDataCall \/ ReadAllCall \/ ReadSymlinkCall \/ ReadToEndCall

SpecRead == InitRead /\ [][NextRead]_vars

(***************************** properties of reads *************************)
IsDataCall == last.op \in {"read_data", "read_all"}
ExtentsBranch == ~IsFastSymlink(inode) /\ UsesExtents(inode)
IndirectBranch == ~IsFastSymlink(inode) /\ ~UsesExtents(inode)

\* The leaf extents of the inode, as the reader collects them.
LeafExtents == ParseExtentTree(img, block_size, inode.block).val

\* The logical byte offset of byte i (1-based) of the last result.
LogicalOffset(i) == last.offset + i - 1

CoveredBy(extent, lblock) ==
    /\ extent.first_block <= lblock
    /\ lblock < extent.first_block + GetActualLen(extent)

\* C3: read_data(offset, length) on an inode of size S fails with
\* ReadBeyondEof and returns no bytes when offset >= S; when offset < S its
\* result holds exactly min(length, S - offset) bytes, in all three mapping
\* variants, unless the image itself ends before a mapped block (an I/O error).
Thm_C3_ReadDataLength ==
    last.op = "read_data" =>
        LET S == InodeSize(inode) IN
        /\ last.offset >= S =>
               ~last.res.ok /\ last.res.err = "ReadBeyondEof" /\ last.res.val = <<>>
        /\ last.offset < S =>
               \/ last.res.ok /\ Len(last.res.val) = Min(last.length, S - last.offset)
               \/ ~last.res.ok /\ last.res.err = "Io" /\ ~IsFastSymlink(inode)

\* A read of the extents branch that starts inside the file and asks for more
\* than is left: the result is cut to S - offset bytes.
Witness_C3 ==
    /\ last.op = "read_data" /\ ExtentsBranch /\ last.res.ok
    /\ last.offset > 0 /\ last.offset < InodeSize(inode)
    /\ last.length > InodeSize(inode) - last.offset
    /\ Len(last.res.val) = InodeSize(inode) - last.offset

\* C5: in the extents branch every returned byte whose logical offset lies
\* inside an unwritten extent is zero.
Cex_C5_UnwrittenReadsZero ==
    (IsDataCall /\ ExtentsBranch /\ last.res.ok) =>
        \A i \in 1..Len(last.res.val) :
            (\E k \in 1..Len(LeafExtents) :
                /\ CoveredBy(LeafExtents[k], LogicalOffset(i) \div block_size)
                /\ IsUnwritten(LeafExtents[k]))
            => last.res.val[i] = 0

\* C6: in the extents branch every returned byte whose logical offset is not
\* covered by any leaf extent is zero.
Cex_C6_GapReadsZero ==
    (IsDataCall /\ ExtentsBranch /\ last.res.ok) =>
        \A i \in 1..Len(last.res.val) :
            (\A k \in 1..Len(LeafExtents) :
                ~CoveredBy(LeafExtents[k], LogicalOffset(i) \div block_size))
            => last.res.val[i] = 0

\* C7: in the indirect branch byte i of the result is zero when the logical
\* block of its offset resolves to pointer 0, and otherwise the image byte at
\* the same offset inside the resolved physical block.
Thm_C7_IndirectSparse ==
    (IsDataCall /\ IndirectBranch /\ last.res.ok) =>
        \A i \in 1..Len(last.res.val) :
            LET o == LogicalOffset(i)
                p == ResolveBlock(img, block_size, inode.block, o \div block_size).val
            IN  last.res.val[i] =
                    IF p = 0 THEN 0 ELSE img[p * block_size + (o % block_size) + 1]

\* block[0] = P0, block[1] = 0, block[2] = P2 read whole: data, zeros, data.
Witness_C7 ==
    /\ last.op = "read_all" /\ IndirectBranch /\ last.res.ok
    /\ inode.block[1] # 0 /\ inode.block[2] = 0 /\ inode.block[3] # 0
    /\ Len(last.res.val) = 3 * block_size
    /\ \A i \in 1..block_size :
           /\ last.res.val[i] = img[inode.block[1] * block_size + i]
           /\ last.res.val[block_size + i] = 0
           /\ last.res.val[2 * block_size + i] = img[inode.block[3] * block_size + i]

\* Byte j (0-based) of the little-endian serialization of inode.block.
InlineByte(j) ==
    LET word == inode.block[(j \div 4) + 1] IN
    CASE j % 4 = 0 -> word % 256
      [] j % 4 = 1 -> (word \div 256) % 256
      [] j % 4 = 2 -> (word \div 65536) % 256
      [] j % 4 = 3 -> (word \div 16777216) % 256

\* C8: reading a symlink of size below 60 returns the first file_size bytes
\* of the little-endian serialization of inode.block (a read_data at offset
\* returns the bytes from offset on) and issues no seek or read on the image.
Thm_C8_FastSymlink ==
    (IsSymlink(inode) /\ InodeSize(inode) < FAST_SYMLINK_MAX_SIZE) =>
        /\ last.op \in {"read_symlink", "read_to_end"} =>
               /\ last.res.ok /\ last.res.nio = 0
               /\ last.res.val = [j \in 1..InodeSize(inode) |-> InlineByte(j - 1)]
        /\ (IsDataCall /\ last.offset < InodeSize(inode)) =>
               /\ last.res.ok /\ last.res.nio = 0
               /\ last.res.val =
                      [i \in 1..Min(last.length, InodeSize(inode) - last.offset) |->
                          InlineByte(LogicalOffset(i))]

\* A six-byte symlink target read to its end without touching the image.
Witness_C8 ==
    /\ last.op = "read_to_end" /\ IsSymlink(inode) /\ InodeSize(inode) = 6
    /\ last.res.ok /\ last.res.nio = 0
    /\ last.res.val = <<40, 41, 42, 43, 44, 45>>

(***************************** walking a tree ******************************)
\* Levels of directories the statement of the reachable entries descends.
MaxDepth == 4
\* Frames on the walker's stack beyond which the model stops calling next():
\* the code itself never compares the depth of its stack with anything.
MaxStack == 8

\* DirectoryWalker::from_path(volume, "/"): the root inode, its Directory and
\* the walker over it.
WalkerFromRoot(image, bs, sb) ==
    Bind(ReadInode(image, bs, sb, ROOT_INODE), LAMBDA root :
        IF ~root.ok THEN root
        ELSE Bind(DirectoryNew(image, bs, root.val, <<>>), LAMBDA directory :
                 IF ~directory.ok THEN directory
                 ELSE Res(DirectoryWalkerNew(directory.val), root.nio + directory.nio)))

InitWalk ==
    /\ block_size \in WalkBlockSizes
    /\ \E sc \in WalkScenarios : img = WalkImage(block_size, sc)
    /\ superblock = WalkSuperblock(block_size)
    /\ stack = WalkerFromRoot(img, block_size, superblock).val
    /\ inode = ReadInode(img, block_size, superblock, ROOT_INODE).val
    /\ yielded = <<>> /\ ended = FALSE /\ last = NoCall /\ position = StartOfFile
    /\ ExtractIdle /\ ConcIdle /\ CallIdle

\* One call of DirectoryWalker::next by a consumer that stops at the first
\* None, as a for loop, collect and par_bridge do.
WalkerNextCall ==
    /\ ~ended /\ Len(stack) <= MaxStack
    /\ \E r \in {WalkerNext(img, block_size, superblock, stack)} :
        /\ stack' = r.stack
        /\ yielded' = IF r.item.kind \in {"Ok", "Err"} THEN Append(yielded, r.item)
                      ELSE yielded
        /\ ended' = (r.item.kind \in {"None", "Panic"})
    /\ UNCHANGED <<img, block_size, callVars, superblock, readVars, extractVars, concVars>>

\* InodeReader::new(volume, item.inode).read_all() on the item yielded last.
ReadItemCall ==
    /\ yielded # <<>> /\ yielded[Len(yielded)].kind = "Ok"
    /\ \E ino \in {yielded[Len(yielded)].inode} :
        /\ inode' = ino
        /\ last' = [op |-> "read_all", offset |-> 0, length |-> InodeSize(ino),
                    res |-> ReadAll(img, block_size, ino)]
    /\ UNCHANGED <<img, block_size, callVars, position, walkVars, extractVars, concVars>>

NextWalk == WalkerNextCall \/ ReadItemCall

SpecWalk == InitWalk /\ [][NextWalk]_vars

(***************************** properties of the walk **********************)
RECURSIVE EntriesBelow(_, _, _, _, _, _)
\* The paths of the entries, other than "." and "..", that the directory ino
\* at path and the directories below it hold, read off the image.
EntriesBelow(image, bs, sb, ino, path, depth) ==
    IF depth = 0 THEN {}
    ELSE Bind(DirectoryNew(image, bs, ino, path), LAMBDA dir :
        IF ~dir.ok THEN {}
        ELSE UNION {
            IF NameStr(e) \in {Dot, DotDot} THEN {}
            ELSE {PathJoin(path, NameStr(e))}
                 \cup Bind(ReadInode(image, bs, sb, e.inode), LAMBDA child :
                          IF child.ok /\ IsDirectory(child.val)
                          THEN EntriesBelow(image, bs, sb, child.val,
                                            PathJoin(path, NameStr(e)), depth - 1)
                          ELSE {})
            : e \in {dir.val.entries[i] : i \in 1..Len(dir.val.entries)}})

RootEntries ==
    EntriesBelow(img, block_size, superblock,
                 ReadInode(img, block_size, superblock, ROOT_INODE).val, <<>>, MaxDepth)

OkItems == {i \in 1..Len(yielded) : yielded[i].kind = "Ok"}

\* C1: when the stream has ended, the walker has yielded exactly one item for
\* every non-erased entry other than "." and ".." of every directory reachable
\* from the start: as many items as there are such entries, no path twice, and
\* no path that is not such an entry.
Cex_C1_EveryEntryOnce ==
    ended =>
        /\ Len(yielded) = Cardinality(RootEntries)
        /\ \A i, j \in OkItems : yielded[i].path = yielded[j].path => i = j
        /\ \A i \in OkItems : yielded[i].path \in RootEntries

\* C2: a per-entry failure never ends the walk: the stream ends (next returns
\* None) only when no entry is left on the walker stack.
Cex_C2_FailureNeverEndsWalk ==
    ended => \A k \in 1..Len(stack) : stack[k].entries = <<>>

\* C4: reading the range [0, file_size) of an inode the walker reached from
\* the root succeeds and returns exactly file_size bytes.
Cex_C4_ReachableReadsWhole ==
    last.op = "read_all" =>
        last.res.ok /\ Len(last.res.val) = InodeSize(inode)

(***************************** extraction driver ***************************)
\* Worker threads of the rayon pool.
NumWorkers == 2
Workers == 1..NumWorkers

\* The mount name the sidecar paths are prefixed with.
MountName == <<109>>

\* The hexadecimal digits of n, most significant first.
RECURSIVE HexDigits(_)
HexDigits(n) == IF n < 16 THEN << n >> ELSE Append(HexDigits(n \div 16), n % 16)

\* The characters of a sequence of hexadecimal digits, in lower case.
HexChars(digits) ==
    [k \in 1..Len(digits) |-> IF digits[k] < 10 THEN 48 + digits[k] ELSE 87 + digits[k]]

\* The digits of the two halves put side by side, the low half not padded.
LowerHexUnpadded(hi, lo) ==
    IF hi = 0 THEN HexChars(HexDigits(lo))
    ELSE HexChars(HexDigits(hi) \o HexDigits(lo))

\* {:x} of the u64 (hi << 32) | lo.  The two 32-bit halves are kept apart,
\* because the whole does not fit a TLC integer: the digits of a non-zero high
\* half are followed by the eight digits of the low half.
LowerHex(hi, lo) ==
    IF hi = 0 THEN HexChars(HexDigits(lo))
    ELSE HexChars(HexDigits(hi) \o Zeros(8 - Len(HexDigits(lo))) \o HexDigits(lo))

CapabilitiesPrefix == << 32, 99, 97, 112, 97, 98, 105, 108, 105, 116, 105, 101, 115, 61, 48, 120 >>
VfsCapDataSize == 20

\* XAttrEntry::capability_string: permitted of the first pair is the low half
\* and permitted of the second pair the high half of the capability set.
CapabilityString(entry) ==
    IF ~IsCapability(entry) \/ Len(entry.value) < VfsCapDataSize THEN NoneOpt
    ELSE
    LET permitted_lo == LeU32(entry.value, 4)
        permitted_hi == LeU32(entry.value, 12)
    IN  IF permitted_hi = 0 /\ permitted_lo = 0 THEN NoneOpt
        ELSE SomeOpt(CapabilitiesPrefix \o LowerHex(permitted_hi, permitted_lo))

\* Mode::permissions_string: the permission bits of the mode in octal, at
\* least four digits.
PermissionsString(mode) ==
    LET p == mode % 4096
    IN  << 48 + (p \div 512), 48 + ((p \div 64) % 8),
           48 + ((p \div 8) % 8), 48 + (p % 8) >>

\* EntryAttributes::mode_with_caps
ModeWithCaps(attr) ==
    IF attr.capabilities.some
    THEN PermissionsString(attr.mode) \o attr.capabilities.val
    ELSE PermissionsString(attr.mode)

\* The attributes DirectoryWalker::next builds for an item: the xattrs of
\* the inode (those stored in the inode; no enumerated inode names an xattr
\* block), the first SELinux label and the first capability string in them.
EntryAttributes(ino) ==
    [mode |-> ino.mode,
     selinux |-> FindMap(ino.inline_xattrs, SelinuxContext),
     capabilities |-> FindMap(ino.inline_xattrs, CapabilityString)]

\* Extractor::process_item: item.type() panics on a mode without a file type;
\* a regular file or a symlink is opened and read to its end, a directory is
\* only created on the host; the result is the pair (path, attributes) the
\* sidecar pass consumes, or an error.  The host file system accepts every
\* write.
ProcessItem(image, bs, item) ==
    LET type == FileTypeFromMode(item.inode.mode)
        copied == IF type \in {"RegularFile", "SymbolicLink"}
                  THEN ReadToEnd(image, bs, item.inode, MaxLength,
                                 [position |-> 0, acc |-> <<>>, nio |-> 0]).ok
                  ELSE TRUE
    IN  [ok |-> copied /\ type # "None", panic |-> type = "None",
         path |-> item.path, mode |-> item.inode.mode,
         attr |-> EntryAttributes(item.inode)]

\* The two root lines: "/ 0 0 0755" and "<mount> 0 0 0755".
RootLines ==
    << [path |-> <<>>, mode |-> << 48, 55, 53, 53 >>],
       [path |-> <<MountName>>, mode |-> << 48, 55, 53, 53 >>] >>

RECURSIVE EntryLines(_)
\* The fs_config lines of the for loop over attributes, one per pair, in the
\* order of the vector: the path below the mount name and mode_with_caps.
EntryLines(attrs) ==
    IF attrs = <<>> THEN <<>>
    ELSE << [path |-> <<MountName>> \o Head(attrs).path,
             mode |-> ModeWithCaps(Head(attrs).attr)] >>
         \o EntryLines(Tail(attrs))

RECURSIVE PathDisplay(_)
\* path.display() of an absolute path: a "/" before every component.
PathDisplay(path) ==
    IF path = <<>> THEN <<>> ELSE << 47 >> \o Head(path) \o PathDisplay(Tail(path))

\* The characters escape_regex puts a backslash before: \ ^ $ . | ? * + ( ) { } [ ]
RegexSpecial == {92, 94, 36, 46, 124, 63, 42, 43, 40, 41, 123, 125, 91, 93}

RECURSIVE EscapeRegex(_)
EscapeRegex(str) ==
    IF str = <<>> THEN <<>>
    ELSE (IF Head(str) \in RegexSpecial THEN << 92, Head(str) >> ELSE << Head(str) >>)
             \o EscapeRegex(Tail(str))

\* str::contains
Contains(str, pattern) ==
    \E k \in 0..(Len(str) - Len(pattern)) : Slice(str, k, k + Len(pattern)) = pattern

BuildProp == << 47, 115, 121, 115, 116, 101, 109, 47, 98, 117, 105, 108, 100, 46, 112, 114, 111, 112 >>
RootfsLabel == << 117, 58, 111, 98, 106, 101, 99, 116, 95, 114, 58, 114, 111, 111, 116, 102, 115, 58, 115, 48 >>

RECURSIVE ContextLines(_)
\* The file_contexts lines of the for loop over attributes: for a labelled
\* entry its rule and, for a directory, the rule of what is below it; for a
\* regular file whose path contains /system/build.prop the two rootfs rules
\* of the mount.  subtree marks a rule with the suffix (/.*)?.
ContextLines(attrs) ==
    IF attrs = <<>> THEN <<>>
    ELSE
    LET path == Head(attrs).path
        attr == Head(attrs).attr
        escaped == EscapeRegex(MountName \o PathDisplay(path))
        labelled ==
            IF ~attr.selinux.some THEN <<>>
            ELSE << [path |-> escaped, subtree |-> FALSE, label |-> attr.selinux.val] >>
                 \o (IF FileTypeFromMode(attr.mode) = "Directory"
                     THEN << [path |-> escaped, subtree |-> TRUE,
                              label |-> attr.selinux.val] >>
                     ELSE <<>>)
        rootfs ==
            IF FileTypeFromMode(attr.mode) = "RegularFile"
                   /\ Contains(PathDisplay(path), BuildProp)
            THEN << [path |-> EscapeRegex(MountName), subtree |-> FALSE,
                     label |-> RootfsLabel],
                    [path |-> EscapeRegex(MountName), subtree |-> TRUE,
                     label |-> RootfsLabel] >>
            ELSE <<>>
    IN  labelled \o rootfs \o ContextLines(Tail(attrs))

\* The trees the driver is run on: the whole tree, the tree whose directory e
\* cannot be read, and the tree whose entry z names no inode.
ExtractScenarios ==
    {sc \in WalkScenarios :
        /\ sc.a_size = 5 /\ sc.f_size = 5 /\ sc.d_kind = "ok"
        /\ ~(sc.e_kind = "io" /\ sc.z_ino = 99)}

InitExtract ==
    /\ block_size \in WalkBlockSizes
    /\ \E sc \in ExtractScenarios : img = WalkImage(block_size, sc)
    /\ superblock = WalkSuperblock(block_size)
    /\ stack = WalkerFromRoot(img, block_size, superblock).val
    /\ inode = ReadInode(img, block_size, superblock, ROOT_INODE).val
    /\ yielded = <<>> /\ ended = FALSE /\ last = NoCall /\ position = StartOfFile
    /\ local = [w \in Workers |-> <<>>]
    /\ items = <<>> /\ attributes = <<>> /\ fsconfig = <<>> /\ contexts = <<>>
    /\ phase = "scan"
    /\ ConcIdle /\ CallIdle

\* par_bridge(): a worker takes the lock of the shared iterator, calls next()
\* and folds the item it got into its own part of the result;
\* filter_map(Result::ok) drops an error item.
BridgePull(w) ==
    /\ phase = "scan" /\ ~ended
    /\ \E r \in {WalkerNext(img, block_size, superblock, stack)} :
        /\ stack' = r.stack
        /\ yielded' = IF r.item.kind \in {"Ok", "Err"} THEN Append(yielded, r.item)
                      ELSE yielded
        /\ ended' = (r.item.kind \in {"None", "Panic"})
        /\ local' = IF r.item.kind = "Ok" THEN [local EXCEPT ![w] = Append(@, r.item)]
                    ELSE local
    /\ UNCHANGED <<img, block_size, callVars, superblock, readVars, items, attributes,
                   fsconfig, contexts, phase, concVars>>

\* collect(): the workers' parts are appended in the order of the workers.
Collect ==
    /\ phase = "scan" /\ ended
    /\ items' = Concat([w \in Workers |-> local[w]])
    /\ attributes' = [i \in 1..Len(items') |-> [done |-> FALSE]]
    /\ phase' = "process"
    /\ UNCHANGED <<img, block_size, callVars, readVars, walkVars, local, fsconfig,
                   contexts, concVars>>

\* items.into_par_iter().filter_map(process_item): some worker processes item
\* i; the result keeps the place of the item in the vector.
ProcessItemStep(i) ==
    /\ phase = "process" /\ ~attributes[i].done
    /\ \E r \in {ProcessItem(img, block_size, items[i])} :
        /\ attributes' = [attributes EXCEPT ![i] = [done |-> TRUE] @@ r]
        /\ phase' = IF r.panic THEN "panic" ELSE phase
    /\ UNCHANGED <<img, block_size, callVars, readVars, walkVars, local, items, fsconfig,
                   contexts, concVars>>

\* The sidecar pass with the root lines written behind the entry lines.
WriteSidecarsRootLast ==
    /\ phase = "process" /\ \A i \in 1..Len(attributes) : attributes[i].done
    /\ fsconfig' = EntryLines(SelectSeq(attributes, LAMBDA a : a.ok)) \o RootLines
    /\ contexts' = ContextLines(SelectSeq(attributes, LAMBDA a : a.ok))
    /\ phase' = "done"
    /\ UNCHANGED <<img, block_size, callVars, readVars, walkVars, local, items, attributes,
                   concVars>>

\* The single-threaded rest of Extractor::run, once the parallel collect has
\* returned: the two root lines, then one line per collected pair.
WriteSidecars ==
    /\ phase = "process" /\ \A i \in 1..Len(attributes) : attributes[i].done
    /\ fsconfig' = RootLines \o EntryLines(SelectSeq(attributes, LAMBDA a : a.ok))
    /\ contexts' = ContextLines(SelectSeq(attributes, LAMBDA a : a.ok))
    /\ phase' = "done"
    /\ UNCHANGED <<img, block_size, callVars, readVars, walkVars, local, items, attributes,
                   concVars>>

NextExtract ==
    \/ \E w \in Workers : BridgePull(w)
    \/ Collect
    \/ \E i \in 1..Len(attributes) : ProcessItemStep(i)
    \/ WriteSidecars

SpecExtract == InitExtract /\ [][NextExtract]_vars

\* What process_item returns for the items the walker yielded, in yield order.
WalkOrder ==
    LET oks == SelectSeq(yielded, LAMBDA it : it.kind = "Ok")
        processed == [i \in 1..Len(oks) |-> ProcessItem(img, block_size, oks[i])]
    IN  SelectSeq(processed, LAMBDA a : a.ok)

\* C9: whatever the scheduling of the workers, the lines of fs_config are the
\* two root lines followed by the entry lines in the order in which the
\* walker yielded the entries.
Cex_C9_SidecarOrder ==
    phase = "done" => fsconfig = RootLines \o EntryLines(WalkOrder)

(***************************** concurrent readers **************************)
\* The same factory with every call handing out the handle opened first (a
\* clone of one descriptor, which shares its seek position).
ReaderFactoryShared(hs) ==
    IF hs = <<>> THEN [handles |-> <<0>>, id |-> 1] ELSE [handles |-> hs, id |-> 1]

\* The reader factory of the extraction driver: File::open on the image and a
\* BufReader over it, a new handle positioned at 0 on every call.  hs holds
\* the seek position of every handle opened so far.
ReaderFactory(hs) == [handles |-> Append(hs, 0), id |-> Len(hs) + 1]

\* Volume::reader(): a call of the volume's reader factory.
VolumeReader(hs) == ReaderFactory(hs)

\* InodeReader::new: reader: volume.reader().
InodeReaderNew(hs) == VolumeReader(hs)

\* read_exact(&mut buffer) on a handle at seek position pos: the bytes at pos
\* and the position behind them, or an error at the end of the image.
ReadExact(image, pos, n) ==
    IF pos + n <= Len(image)
    THEN [res |-> Res(Slice(image, pos, pos + n), 2), pos |-> pos + n]
    ELSE [res |-> Fail("Io", 2), pos |-> Len(image)]

NoFetch == Fail("", 0)

InitConc ==
    /\ block_size \in BlockSizes
    /\ img = MkImage(block_size, 0, <<>>)
    /\ inode = MkInode(RegMode, 0, 0, Zeros(15))
    /\ last = NoCall /\ position = StartOfFile
    /\ handles = <<>>
    /\ reader = [w \in Workers |-> 0]
    /\ pc = [w \in Workers |-> "new"]
    /\ request = [w \in Workers |-> 0]
    /\ fetched = [w \in Workers |-> NoFetch]
    /\ WalkIdle /\ ExtractIdle /\ CallIdle

\* Worker w builds its InodeReader.
NewReader(w) ==
    /\ pc[w] = "new"
    /\ \E made \in {InodeReaderNew(handles)} :
        /\ handles' = made.handles
        /\ reader' = [reader EXCEPT ![w] = made.id]
    /\ pc' = [pc EXCEPT ![w] = "idle"]
    /\ UNCHANGED <<img, block_size, callVars, readVars, walkVars, extractVars, request, fetched>>

\* read_block(block_num), first half: reader.seek(SeekFrom::Start(offset)).
SeekStep(w) ==
    /\ pc[w] = "idle"
    /\ \E block_num \in 0..MaxBlocks :
        /\ request' = [request EXCEPT ![w] = block_num]
        /\ handles' = [handles EXCEPT ![reader[w]] = block_num * block_size]
    /\ fetched' = [fetched EXCEPT ![w] = NoFetch]
    /\ pc' = [pc EXCEPT ![w] = "sought"]
    /\ UNCHANGED <<img, block_size, callVars, readVars, walkVars, extractVars, reader>>

\* read_block(block_num), second half: reader.read_exact(&mut buffer).
ReadStep(w) ==
    /\ pc[w] = "sought"
    /\ \E r \in {ReadExact(img, handles[reader[w]], block_size)} :
        /\ fetched' = [fetched EXCEPT ![w] = r.res]
        /\ handles' = [handles EXCEPT ![reader[w]] = r.pos]
    /\ pc' = [pc EXCEPT ![w] = "idle"]
    /\ UNCHANGED <<img, block_size, callVars, readVars, walkVars, extractVars, reader, request>>

NextConc == \E w \in Workers : NewReader(w) \/ SeekStep(w) \/ ReadStep(w)

SpecConc == InitConc /\ [][NextConc]_vars

SUPERBLOCK_OFFSET == 1024
EXT4_SUPERBLOCK_MAGIC == 61267
SuperblockSize == 1024

\* Superblock::parse: the fixed little-endian layout, field after field, 1024
\* bytes in all; it fails only when the input ends before the last field.  No
\* field is compared with anything.  The fields the volume uses are kept
\* (blocks_count_hi is 0 in every enumerated image).
SuperblockParse(input) ==
    IF Len(input) < SuperblockSize THEN Fail("Parse", 0)
    ELSE Res([inodes_per_group |-> LeU32(input, 40), inode_size |-> LeU16(input, 88),
              desc_size |-> LeU16(input, 254), blocks_count |-> LeU32(input, 4),
              blocks_per_group |-> LeU32(input, 32),
              log_block_size |-> LeU32(input, 24), magic |-> LeU16(input, 56)], 0)

\* 1024u32 << n for a shift amount n below 32: the bits shifted out of the
\* 32-bit word are lost without a check, and 1024 is 2^10, so from n = 22 on
\* nothing is left of it.
Shl1024(n) == IF n >= 22 THEN 0 ELSE 1024 * (2 ^ n)

\* Superblock::block_size: 1024 << log_block_size on u32.  A shift amount of
\* 32 or more panics where overflow checks are compiled in (debug builds) and
\* is taken modulo 32 where they are not (release builds).
SuperblockBlockSize(sb, overflow_checks) ==
    IF sb.log_block_size < 32 THEN Res(Shl1024(sb.log_block_size), 0)
    ELSE IF overflow_checks THEN Fail("Panic", 0)
    ELSE Res(Shl1024(sb.log_block_size % 32), 0)

\* Volume::new: seek to the superblock, read 1024 bytes, decode them.
VolumeNew(image, overflow_checks) ==
    Bind(SeekRead(image, SUPERBLOCK_OFFSET, SuperblockSize), LAMBDA sb_buf :
        IF ~sb_buf.ok THEN Fail(sb_buf.err, sb_buf.nio)
        ELSE Bind(SuperblockParse(sb_buf.val), LAMBDA sb :
                 IF ~sb.ok THEN Fail(sb.err, sb_buf.nio)
                 ELSE Bind(SuperblockBlockSize(sb.val, overflow_checks), LAMBDA bs :
                          IF ~bs.ok THEN Fail(bs.err, sb_buf.nio)
                          ELSE Res([superblock |-> sb.val, block_size |-> bs.val],
                                   sb_buf.nio))))

\* Largest inode number asked of read_inode.
MaxInode == 17

\* The 1024 bytes of a superblock with the given fields: eight 256-byte inodes
\* per group, 32768 blocks per group, 32-byte descriptors.
SuperblockBytes(sc) ==
    [i \in 1..SuperblockSize |->
        LET o == i - 1 IN
        IF o \in 4..7 THEN ToLeBytes(sc.blocks_count)[o - 3]
        ELSE IF o \in 24..27 THEN ToLeBytes(sc.log_block_size)[o - 23]
        ELSE IF o \in 32..35 THEN ToLeBytes(32768)[o - 31]
        ELSE IF o \in 40..43 THEN ToLeBytes(8)[o - 39]
        ELSE IF o \in 56..57 THEN U16Bytes(sc.magic)[o - 55]
        ELSE IF o \in 88..89 THEN U16Bytes(256)[o - 87]
        ELSE IF o \in 254..255 THEN U16Bytes(32)[o - 253]
        ELSE 0]

\* An image with that superblock at byte 1024, one group descriptor at byte
\* 2048 and the inode table of group 0 behind it; inode n has size n.  A
\* short image ends inside the superblock.
MountImage(sc) ==
    LET bs == 1024 * (2 ^ sc.log_block_size)
        table == IF bs = 1024 THEN 3 ELSE 2
        whole == Zeros(SUPERBLOCK_OFFSET) \o SuperblockBytes(sc)
                 \o PadTo(Zeros(8) \o ToLeBytes(table), table * bs - 2048)
                 \o Concat([n \in 1..8 |->
                        InodeBytes(MkInode(RegMode, n, 0, Zeros(15)))])
    IN  IF sc.short THEN SubSeq(whole, 1, 1500) ELSE whole

MountScenarios ==
    [magic : {EXT4_SUPERBLOCK_MAGIC, 0, 21487, 61266}, log_block_size : {0, 1},
     blocks_count : {8, 40000}, short : BOOLEAN]

InitMount ==
    /\ \E sc \in MountScenarios : img = MountImage(sc)
    /\ block_size = 0 /\ superblock = NoSuperblock
    /\ inode = MkInode(0, 0, 0, Zeros(15)) /\ last = NoCall /\ position = StartOfFile
    /\ stack = <<>> /\ yielded = <<>> /\ ended = FALSE
    /\ ExtractIdle /\ ConcIdle /\ CallIdle

\* Volume::new(reader)
VolumeNewCall ==
    /\ volume.state = "none"
    /\ \E overflow_checks \in BOOLEAN : \E r \in {VolumeNew(img, overflow_checks)} :
        /\ volume' = [state |-> IF r.ok THEN "ok" ELSE "err", err |-> r.err]
        /\ superblock' = IF r.ok THEN r.val.superblock ELSE superblock
        /\ block_size' = IF r.ok THEN r.val.block_size ELSE block_size
    /\ UNCHANGED <<img, call, readVars, stack, yielded, ended, extractVars, concVars>>

\* volume.read_inode(inode_num), a method of a constructed Volume.
ReadInodeCall ==
    /\ volume.state = "ok" /\ call = NoOp
    /\ \E inode_num \in 0..MaxInode :
        call' = [op |-> "read_inode", arg |-> inode_num,
                 res |-> ReadInode(img, block_size, superblock, inode_num)]
    /\ UNCHANGED <<img, block_size, volume, readVars, walkVars, extractVars, concVars>>

NextMount == VolumeNewCall \/ ReadInodeCall

SpecMount == InitMount /\ [][NextMount]_vars

\* The magic field of the image's superblock, when the image holds it.
ImageMagic == LeU16(img, SUPERBLOCK_OFFSET + 56)

\* C11: a Volume is constructed, and an operation on it runs, only over an
\* image whose superblock magic is 0xEF53.
Cex_C11_BadMagicIsFatal ==
    (volume.state = "ok" \/ call # NoOp) => ImageMagic = EXT4_SUPERBLOCK_MAGIC

\* C15: read_inode(0) fails with InvalidInode before the reader is used, and
\* read_inode(n), n >= 1, whose group (n - 1) / inodes_per_group is not below
\* block_group_count fails with InvalidBlockGroup; neither returns an inode.
Thm_C15_ReadInodeRange ==
    call.op = "read_inode" =>
        /\ call.arg = 0 =>
               /\ ~call.res.ok /\ call.res.err = "InvalidInode"
               /\ call.res.nio = 0 /\ call.res.val = <<>>
        /\ (/\ call.arg >= 1
            /\ (call.arg - 1) \div superblock.inodes_per_group
                   >= BlockGroupCount(superblock)) =>
               /\ ~call.res.ok /\ call.res.err = "InvalidBlockGroup"
               /\ call.res.val = <<>>

\* read_inode(9) on a volume of one group of eight inodes.
Witness_C15 ==
    /\ call.op = "read_inode" /\ call.arg = 9
    /\ superblock.inodes_per_group = 8 /\ BlockGroupCount(superblock) = 1
    /\ ~call.res.ok /\ call.res.err = "InvalidBlockGroup"

(***************************** extent trees with inner nodes ***************)
\* A block that holds one node of an extent tree: a header and one record.
TreeBlockSizes == {ExtentHeaderSize + ExtentSize}

\* The words of a node with one record: header (magic, one entry, room for
\* four, depth) and the record's three words.
NodeWords(magic, depth, record) ==
    << magic + 65536 * 1, 4 + 65536 * depth, 0 >> \o record

LeafRecord(first_block, block_count, start) == << first_block, block_count, start >>
IndexRecord(first_block, leaf) == << first_block, leaf, 0 >>

\* The image of the enumerated trees.  Block 1: a leaf mapping logical block 0
\* to block 3.  Block 2: the same leaf under magic 0.  Block 3: data.  Block 4:
\* an index node whose child is block 4 itself.  Block 5: an index node whose
\* child is the leaf in block 1.
TreeImage(bs) ==
    [i \in 1..bs |-> Fill(i - 1)]
    \o LeWords(NodeWords(ExtentMagic, 0, LeafRecord(0, 1, 3)))
    \o LeWords(NodeWords(0, 0, LeafRecord(0, 1, 3)))
    \o [i \in 1..bs |-> Fill(3 * bs + i - 1)]
    \o LeWords(NodeWords(ExtentMagic, 1, IndexRecord(0, 4)))
    \o LeWords(NodeWords(ExtentMagic, 1, IndexRecord(0, 1)))

\* Roots: a leaf, or an index node of claimed depth 1, 2 or 100 over one of
\* the node blocks; under the extent magic and under two other values.
TreeRoots ==
    {Pad15(NodeWords(magic, 0, LeafRecord(0, 1, 3))) : magic \in {ExtentMagic, 0, 2803}}
    \cup {Pad15(NodeWords(magic, depth, IndexRecord(0, child))) :
             magic \in {ExtentMagic, 0, 2803}, depth \in {1, 2, 100},
             child \in {1, 2, 4, 5}}

InitTree ==
    /\ block_size \in TreeBlockSizes
    /\ img = TreeImage(block_size)
    /\ \E root \in TreeRoots : inode = MkInode(RegMode, block_size, FlagExtents, root)
    /\ last = NoCall /\ position = StartOfFile
    /\ WalkIdle /\ ExtractIdle /\ ConcIdle /\ CallIdle

NextTree == ReadDataCall \/ ReadAllCall

SpecTree == InitTree /\ [][NextTree]_vars

\* The header of the root node and, when the root is an index node, of the
\* block its first record names.
RootHeader == ExtentHeaderParse(Slice(FlatMapLe(inode.block), 0, ExtentHeaderSize))
RootChild ==
    LeafBlock(ExtentIndexParse(
        Slice(FlatMapLe(inode.block), ExtentHeaderSize, ExtentHeaderSize + ExtentSize)))
ChildHeader ==
    ExtentHeaderParse(Slice(ReadBlock(img, block_size, RootChild).val, 0, ExtentHeaderSize))

\* A read that reaches the extent tree: inside the file, in the extents branch.
ReadsTree == IsDataCall /\ ExtentsBranch /\ last.offset < InodeSize(inode)

\* C12: a read through a tree whose root header, or whose child node header,
\* has a magic other than 0xF30A fails with an invalid-magic error.
Cex_C12_BadExtentMagicRejected ==
    (/\ ReadsTree
     /\ \/ RootHeader.magic # ExtentMagic
        \/ RootHeader.depth > 0 /\ ChildHeader.magic # ExtentMagic) =>
        ~last.res.ok /\ last.res.err = "InvalidMagic"

\* C14: the collection never nests deeper than the cap of 5 levels (a run of
\* the model that exhausts MaxRecursion stands for unbounded recursion), and a
\* root header claiming a depth above 5 ends the read with an error.
Cex_C14_ExtentDepthCapped ==
    ReadsTree =>
        /\ last.res.err # "StackOverflow"
        /\ RootHeader.depth > 5 => ~last.res.ok

(***************************** walking a corrupted tree ********************)
\* Trees whose entry /d/e/g names a regular file, /d/e itself, /d or /.
CycleScenarios ==
    [a_size : {0, 5}, f_size : {0, 5}, d_kind : {"ok"}, e_kind : {"ok"},
     z_ino : {8, 99}, g_ino : {3, 6, 4, 2}, f_mode : {RegMode}, xattr : {"none"},
     live : {AllLive}]

InitCycle ==
    /\ block_size \in WalkBlockSizes
    /\ \E sc \in CycleScenarios : img = WalkImage(block_size, sc)
    /\ superblock = WalkSuperblock(block_size)
    /\ stack = WalkerFromRoot(img, block_size, superblock).val
    /\ inode = ReadInode(img, block_size, superblock, ROOT_INODE).val
    /\ yielded = <<>> /\ ended = FALSE /\ last = NoCall /\ position = StartOfFile
    /\ ExtractIdle /\ ConcIdle /\ CallIdle

NextCycle == WalkerNextCall

SpecCycle == InitCycle /\ [][NextCycle]_vars

\* C13: the walker's stack never holds more than a fixed number of frames
\* (checked for a cap of MaxStack frames, on trees that are three levels deep).
Cex_C13_WalkDepthCapped == Len(stack) <= MaxStack

(***************************** paths ***************************************)
\* A path is the sequence of its bytes; "/" is 47 and "." is 46.
Sep == 47
CurDirStr == <<46>>
ParentDirStr == <<46, 46>>

RECURSIVE Segments(_, _, _)
\* The maximal runs of bytes other than "/" in s, in order: cur is the run
\* being read and acc the runs before it.
Segments(s, cur, acc) ==
    IF s = <<>> THEN (IF cur = <<>> THEN acc ELSE Append(acc, cur))
    ELSE IF Head(s) = Sep
    THEN Segments(Tail(s), <<>>, IF cur = <<>> THEN acc ELSE Append(acc, cur))
    ELSE Segments(Tail(s), Append(cur, Head(s)), acc)

\* The components of a Unix path.
RootDir == [kind |-> "RootDir", str |-> <<Sep>>]
CurDir == [kind |-> "CurDir", str |-> CurDirStr]
ParentDir == [kind |-> "ParentDir", str |-> ParentDirStr]
Normal(name) == [kind |-> "Normal", str |-> name]

RECURSIVE SegmentComponents(_)
\* Every segment as a component; a "." segment is normalized away.
SegmentComponents(segs) ==
    IF segs = <<>> THEN <<>>
    ELSE (IF Head(segs) = CurDirStr THEN <<>>
          ELSE IF Head(segs) = ParentDirStr THEN <<ParentDir>>
          ELSE <<Normal(Head(segs))>>) \o SegmentComponents(Tail(segs))

\* Path::components on Unix: RootDir for a leading "/", CurDir for a leading
\* "." of a relative path, ParentDir for "..", Normal for any other segment;
\* repeated separators, a trailing separator and every other "." disappear.
Components(s) ==
    LET segs == Segments(s, <<>>, <<>>) IN
    IF s # <<>> /\ s[1] = Sep THEN <<RootDir>> \o SegmentComponents(segs)
    ELSE IF segs # <<>> /\ segs[1] = CurDirStr
    THEN <<CurDir>> \o SegmentComponents(Tail(segs))
    ELSE SegmentComponents(segs)

\* A push that always writes a separator before the pushed path.
PathPushAlwaysSep(buf, path) == buf \o <<Sep>> \o path

\* PathBuf::push: an absolute path replaces the buffer; otherwise a separator
\* is added unless the buffer is empty or ends with one.
PathPush(buf, path) ==
    IF path # <<>> /\ path[1] = Sep THEN path
    ELSE IF buf # <<>> /\ buf[Len(buf)] # Sep THEN buf \o <<Sep>> \o path
    ELSE buf \o path

RECURSIVE TrimSeparators(_)
\* buf without its trailing separators, a lone root "/" excepted.
TrimSeparators(buf) ==
    IF Len(buf) > 1 /\ buf[Len(buf)] = Sep
    THEN TrimSeparators(SubSeq(buf, 1, Len(buf) - 1))
    ELSE buf

RECURSIVE TrimSegment(_)
TrimSegment(buf) ==
    IF buf # <<>> /\ buf[Len(buf)] # Sep
    THEN TrimSegment(SubSeq(buf, 1, Len(buf) - 1))
    ELSE buf

\* PathBuf::pop: truncate to the parent, the path without its last component.
\* It is called on buffers built by PathPush, which end with a component.
PathPop(buf) == TrimSeparators(TrimSegment(TrimSeparators(buf)))

RECURSIVE NormalizeLoopUnguarded(_, _, _)
\* The loop without the test that stops a ".." at the root.
NormalizeLoopUnguarded(rest, lexical, root) ==
    IF rest = <<>> THEN Res(lexical, 0)
    ELSE LET component == Head(rest) IN
         CASE component.kind = "RootDir" -> Fail("Panic", 0)
           [] component.kind = "CurDir" ->
                  NormalizeLoopUnguarded(Tail(rest), lexical, root)
           [] component.kind = "ParentDir" ->
                  NormalizeLoopUnguarded(Tail(rest), PathPop(lexical), root)
           [] component.kind = "Normal" ->
                  NormalizeLoopUnguarded(Tail(rest), PathPush(lexical, component.str), root)

RECURSIVE NormalizeLoop(_, _, _)
\* The for loop of normalize over the components left in the iterator.
NormalizeLoop(rest, lexical, root) ==
    IF rest = <<>> THEN Res(lexical, 0)
    ELSE LET component == Head(rest) IN
         CASE component.kind = "RootDir" -> Fail("Panic", 0)
           [] component.kind = "CurDir" -> NormalizeLoop(Tail(rest), lexical, root)
           [] component.kind = "ParentDir" ->
                  IF Len(lexical) = root THEN Fail("InvalidPath", 0)
                  ELSE NormalizeLoop(Tail(rest), PathPop(lexical), root)
           [] component.kind = "Normal" ->
                  NormalizeLoop(Tail(rest), PathPush(lexical, component.str), root)

\* NormalizePath::normalize (no Prefix component exists on Unix).
Normalize(path) ==
    LET iter == Components(path) IN
    IF iter = <<>> THEN Res(<<>>, 0)
    ELSE CASE Head(iter).kind = "ParentDir" -> Fail("InvalidPath", 0)
           [] Head(iter).kind \in {"RootDir", "CurDir"} ->
                  LET lexical == PathPush(<<>>, Head(iter).str)
                  IN  NormalizeLoop(Tail(iter), lexical, Len(lexical))
           [] Head(iter).kind = "Normal" -> NormalizeLoop(iter, <<>>, 0)

\* Longest enumerated path, in bytes.
MaxPathLen == 6

\* Every path of up to MaxPathLen bytes over "/", "." and "a".
PathBytes == {Sep, 46, 97}
Paths == UNION {[1..n -> PathBytes] : n \in 0..MaxPathLen}

InitPath ==
    /\ img = <<>> /\ block_size = 0 /\ superblock = NoSuperblock
    /\ inode = MkInode(0, 0, 0, Zeros(15)) /\ last = NoCall /\ position = StartOfFile
    /\ stack = <<>> /\ yielded = <<>> /\ ended = FALSE
    /\ ExtractIdle /\ ConcIdle
    /\ volume = NoVolume
    /\ \E path \in Paths :
           call = [op |-> "path", path |-> path, arg |-> path, res |-> Fail("", 0)]

\* path.normalize()
NormalizeCall ==
    /\ call.op = "path"
    /\ call' = [call EXCEPT !.op = "normalize", !.res = Normalize(call.arg)]
    /\ UNCHANGED <<img, block_size, volume, readVars, walkVars, extractVars, concVars>>

\* normalize() applied to the path a successful normalize() returned.
NormalizeAgainCall ==
    /\ call.op = "normalize" /\ call.res.ok
    /\ call' = [call EXCEPT !.op = "normalize_again", !.arg = call.res.val,
                            !.res = Normalize(call.res.val)]
    /\ UNCHANGED <<img, block_size, volume, readVars, walkVars, extractVars, concVars>>

NextPath == NormalizeCall \/ NormalizeAgainCall

SpecPath == InitPath /\ [][NextPath]_vars

\* C17: normalize applied to a path that normalize returned succeeds and
\* returns that path unchanged.
Thm_C17_NormalizeIdempotent ==
    call.op = "normalize_again" => call.res.ok /\ call.res.val = call.arg

\* "/a/..//" normalizes to "/", and "/" normalizes to "/".
Witness_C17 ==
    /\ call.op = "normalize_again" /\ call.path = <<47, 97, 47, 46, 46, 47>>
    /\ call.arg = <<47>> /\ call.res.ok /\ call.res.val = <<47>>

RECURSIVE Escapes(_, _)
\* Some ".." among the components cs is met at depth 0, where depth counts
\* the named components entered and not yet left since the start of the path.
Escapes(cs, depth) ==
    IF cs = <<>> THEN FALSE
    ELSE CASE Head(cs).kind = "ParentDir" -> depth = 0 \/ Escapes(Tail(cs), depth - 1)
           [] Head(cs).kind = "Normal" -> Escapes(Tail(cs), depth + 1)
           [] OTHER -> Escapes(Tail(cs), depth)

\* The segments of the path normalize returned.
OutSegments == Segments(call.res.val, <<>>, <<>>)

\* C18 as stated: normalize fails with InvalidPath when a ".." leads or would
\* pop above the start of the path; otherwise it succeeds and no segment of
\* the result is "." or "..".
Cex_C18_NoDotLeft ==
    call.op = "normalize" =>
        IF Escapes(Components(call.path), 0)
        THEN ~call.res.ok /\ call.res.err = "InvalidPath"
        ELSE /\ call.res.ok
             /\ \A k \in 1..Len(OutSegments) :
                    OutSegments[k] # CurDirStr /\ OutSegments[k] # ParentDirStr

\* C18: normalize fails with InvalidPath when a ".." leads or would pop above
\* the start of the path; otherwise it succeeds, no segment of the result is
\* "..", and the only "." the result can hold is the first segment of a
\* relative path that began with ".".
Thm_C18_NormalizeRejectsEscapes ==
    call.op = "normalize" =>
        IF Escapes(Components(call.path), 0)
        THEN ~call.res.ok /\ call.res.err = "InvalidPath"
        ELSE /\ call.res.ok
             /\ \A k \in 1..Len(OutSegments) :
                    /\ OutSegments[k] # ParentDirStr
                    /\ OutSegments[k] = CurDirStr =>
                           k = 1 /\ Head(Components(call.path)).kind = "CurDir"

\* "./a/.." normalizes to ".": the ".." takes "a" away and the leading "."
\* stays.
Witness_C18 ==
    /\ call.op = "normalize" /\ call.path = <<46, 47, 97, 47, 46, 46>>
    /\ call.res.ok /\ call.res.val = <<46>>

(***************************** path lookup *********************************)
\* The variant lookup_path returns for a missing component.
NotFoundErr == "FileNotFound"

\* Directory::find: the first entry whose name_str equals name, or none.
DirectoryFind(entries, name) ==
    LET hits == {k \in 1..Len(entries) : NameStr(entries[k]) = name} IN
    IF hits = {} THEN [some |-> FALSE]
    ELSE [some |-> TRUE,
          entry |-> entries[CHOOSE k \in hits : \A j \in hits : k <= j]]

RECURSIVE LookupLoop(_, _, _, _)
\* The for loop of lookup_path over the Normal components.  st0 is the loop
\* state: the components left, current_inode and the reader calls so far.
LookupLoop(image, bs, sb, st0) ==
    CHOOSE out \in {
        IF st.components = <<>> THEN Res(st.current_inode, st.nio)
        ELSE
        Bind(DirectoryNew(image, bs, st.current_inode, <<>>), LAMBDA directory :
            IF ~directory.ok THEN Fail(directory.err, st.nio + directory.nio)
            ELSE
            LET component_str == Head(st.components)
                found == DirectoryFind(directory.val.entries, component_str)
            IN  IF ~found.some
                THEN [ok |-> FALSE, err |-> NotFoundErr, val |-> component_str,
                      nio |-> st.nio + directory.nio]
                ELSE Bind(ReadInode(image, bs, sb, found.entry.inode), LAMBDA next :
                         IF ~next.ok
                         THEN Fail(next.err, st.nio + directory.nio + next.nio)
                         ELSE LookupLoop(image, bs, sb,
                                  [components |-> Tail(st.components),
                                   current_inode |-> next.val,
                                   nio |-> st.nio + directory.nio + next.nio])))
        : st \in {st0}} : TRUE

\* The names of the Normal components of a path, in order.
NormalNames(path) ==
    LET cs == SelectSeq(Components(path), LAMBDA c : c.kind = "Normal")
    IN  [k \in 1..Len(cs) |-> cs[k].str]

\* Volume::lookup_path
LookupPath(image, bs, sb, path) ==
    Bind(Normalize(path), LAMBDA normalized :
        IF ~normalized.ok THEN Fail(normalized.err, 0)
        ELSE
        LET components == NormalNames(normalized.val) IN
        IF components = <<>> THEN ReadInode(image, bs, sb, ROOT_INODE)
        ELSE Bind(ReadInode(image, bs, sb, ROOT_INODE), LAMBDA root :
                 IF ~root.ok THEN root
                 ELSE LookupLoop(image, bs, sb,
                          [components |-> components, current_inode |-> root.val,
                           nio |-> root.nio])))

\* Most components of an enumerated lookup path.
MaxComponents == 3

\* The looked-up paths: up to MaxComponents components out of a, d, e, f, q
\* (a name no directory holds) and "..", relative or behind a leading "/".
LookupNames == {<<97>>, <<100>>, <<101>>, <<102>>, <<113>>, ParentDirStr}

RECURSIVE JoinNames(_)
JoinNames(names) ==
    IF names = <<>> THEN <<>>
    ELSE IF Len(names) = 1 THEN names[1]
    ELSE names[1] \o <<Sep>> \o JoinNames(Tail(names))

LookupPaths ==
    {lead \o JoinNames(names) :
        lead \in {<<>>, <<Sep>>},
        names \in UNION {[1..n -> LookupNames] : n \in 0..MaxComponents}}

\* The trees of the lookups: /d is a directory of one block, a directory
\* whose block lies past the end of the image, or a directory inode of size 0.
LookupScenarios ==
    [a_size : {5}, f_size : {5}, d_kind : {"ok", "io", "empty"}, e_kind : {"ok"},
     z_ino : {8}, g_ino : {3}, f_mode : {RegMode}, xattr : {"none"}, live : {AllLive}]

InitLookup ==
    /\ block_size \in WalkBlockSizes
    /\ \E sc \in LookupScenarios : img = WalkImage(block_size, sc)
    /\ superblock = WalkSuperblock(block_size)
    /\ inode = MkInode(0, 0, 0, Zeros(15)) /\ last = NoCall /\ position = StartOfFile
    /\ stack = <<>> /\ yielded = <<>> /\ ended = FALSE
    /\ ExtractIdle /\ ConcIdle
    /\ volume = [state |-> "ok", err |-> ""] /\ call = NoOp

\* volume.lookup_path(path)
LookupPathCall ==
    /\ call = NoOp
    /\ \E path \in LookupPaths :
        call' = [op |-> "lookup_path", arg |-> path,
                 res |-> LookupPath(img, block_size, superblock, path)]
    /\ UNCHANGED <<img, block_size, volume, readVars, walkVars, extractVars, concVars>>

NextLookup == LookupPathCall

SpecLookup == InitLookup /\ [][NextLookup]_vars

\* The content of a directory inode as the lookup is to see it: the entries
\* decoded from its bytes, none when its size is 0.
EntriesOf(ino) ==
    IF InodeSize(ino) = 0 THEN Res(<<>>, 0) ELSE ParseEntries(img, block_size, ino)

RECURSIVE Resolution(_, _)
\* Where the components lead from inode ino: to an inode ("found"), to a
\* component its directory does not hold ("missing"), to a non-directory with
\* components left ("notdir"), or to something the image cannot deliver.
Resolution(components, ino) ==
    IF components = <<>> THEN [kind |-> "found", inode |-> ino]
    ELSE IF ~IsDirectory(ino) THEN [kind |-> "notdir"]
    ELSE Bind(EntriesOf(ino), LAMBDA entries :
             IF ~entries.ok THEN [kind |-> "unreadable"]
             ELSE Bind(DirectoryFind(entries.val, Head(components)), LAMBDA found :
                      IF ~found.some
                      THEN [kind |-> "missing", component |-> Head(components)]
                      ELSE Bind(ReadInode(img, block_size, superblock, found.entry.inode),
                               LAMBDA child :
                                   IF ~child.ok THEN [kind |-> "unreadable"]
                                   ELSE Resolution(Tail(components), child.val))))

\* C16: a lookup of a path that normalizes starts at inode 2 and follows the
\* components left to right: it fails with the not-found error naming the
\* first component its directory does not hold, fails with NotADirectory when
\* a non-directory is reached with components left, and returns inode 2 for a
\* path without named components.
Cex_C16_LookupPath ==
    (call.op = "lookup_path" /\ Normalize(call.arg).ok) =>
        LET root == ReadInode(img, block_size, superblock, ROOT_INODE).val
            names == NormalNames(Normalize(call.arg).val)
            goal == Resolution(names, root)
        IN  /\ names = <<>> => call.res.ok /\ call.res.val = root
            /\ goal.kind = "found" => call.res.ok /\ call.res.val = goal.inode
            /\ goal.kind = "missing" =>
                   /\ ~call.res.ok /\ call.res.err = NotFoundErr
                   /\ call.res.val = goal.component
            /\ goal.kind = "notdir" => ~call.res.ok /\ call.res.err = "NotADirectory"

(************************ decoding directory data ***************************)
MaxDirRecords == 2
DirRecLens == {0, 4, 8, 12, 20}
DirNameLens == {2, 4}
DirNameBytes == << 97, 98, 99, 100 >>

\* The bytes one directory record occupies: the 8-byte header and physical - 8
\* bytes behind it.  rec_len and name_len are whatever the header says, which
\* on a damaged directory need not match the bytes that are there.
DirRecordBytes(inode_num, rec_len, name_len, physical) ==
    ToLeBytes(inode_num) \o U16Bytes(rec_len) \o << name_len, 1 >>
        \o SubSeq(DirNameBytes, 1, physical - DirEntryHeaderSize)

DirRecords ==
    { DirRecordBytes(inode_num, rec_len, name_len, physical) :
          inode_num \in {0, 5}, rec_len \in DirRecLens,
          name_len \in DirNameLens, physical \in {8, 12} }

RECURSIVE DirDatas(_)
DirDatas(n) ==
    IF n = 0 THEN { <<>> }
    ELSE DirDatas(n - 1) \cup { d \o r : d \in DirDatas(n - 1), r \in DirRecords }

InitDir ==
    /\ img = <<>> /\ block_size = 0 /\ superblock = NoSuperblock
    /\ inode = MkInode(0, 0, 0, Zeros(15)) /\ last = NoCall /\ position = StartOfFile
    /\ stack = <<>> /\ yielded = <<>> /\ ended = FALSE
    /\ ExtractIdle /\ ConcIdle
    /\ volume = NoVolume
    /\ \E data \in DirDatas(MaxDirRecords) :
           call = [op |-> "dir_data", arg |-> data, res |-> Fail("", 0)]

\* Directory::parse_entries on the bytes read_all returned for the directory.
ParseEntriesCall ==
    /\ call.op = "dir_data"
    /\ \E entries \in {ParseEntriesLoop(call.arg, [offset |-> 0, entries |-> <<>>])} :
           call' = [call EXCEPT !.op = "parse_entries", !.res = Res(entries, 0)]
    /\ UNCHANGED <<img, block_size, volume, readVars, walkVars, extractVars, concVars>>

NextDir == ParseEntriesCall

SpecDir == InitDir /\ [][NextDir]_vars

RECURSIVE RecordChain(_, _)
\* The offsets of the records met by following rec_len from offset off, up to
\* the first record with rec_len = 0 or rec_len beyond the remaining bytes, or
\* to the point where fewer than 8 bytes remain.
RecordChain(data, off) ==
    IF Len(data) - off < DirEntryHeaderSize THEN <<>>
    ELSE IF LeU16(data, off + 4) = 0 \/ LeU16(data, off + 4) > Len(data) - off
    THEN <<>>
    ELSE << off >> \o RecordChain(data, off + LeU16(data, off + 4))

\* The records of the chain that are not erased slots.
LiveRecords(data) ==
    SelectSeq(RecordChain(data, 0), LAMBDA off : LeU32(data, off) # 0)

\* The name_len bytes behind the header of the record at off, as far as the
\* data holds them.
NameAfterHeader(data, off) ==
    Slice(data, off + DirEntryHeaderSize,
          Min(off + DirEntryHeaderSize + data[off + 7], Len(data)))

\* The decoder emits, in order, one entry for every live record of the chain,
\* with the inode, rec_len and name_len of its header.
DirectoryRecordsEmitted ==
    call.op = "parse_entries" =>
        LET live == LiveRecords(call.arg)
            entries == call.res.val
        IN  /\ call.res.ok
            /\ Len(entries) = Len(live)
            /\ \A k \in 1..Len(live) :
                   /\ entries[k].inode = LeU32(call.arg, live[k])
                   /\ entries[k].entry_len = LeU16(call.arg, live[k] + 4)
                   /\ entries[k].name_len = call.arg[live[k] + 7]

\* An emitted name whose name_len bytes lie inside the data is those bytes.
DirectoryNamesInsideData ==
    call.op = "parse_entries" =>
        LET live == LiveRecords(call.arg)
        IN  \A k \in 1..Len(live) :
                live[k] + DirEntryHeaderSize + call.arg[live[k] + 7] <= Len(call.arg)
                    => call.res.val[k].name = NameAfterHeader(call.arg, live[k])

\* C19: decoding a directory's bytes ends on every byte string and emits, in
\* on-disk order, exactly the records with inode # 0 met by following rec_len
\* from offset 0 until rec_len = 0, rec_len beyond the remaining bytes, or
\* fewer than 8 bytes remaining; erased records are skipped and still advance
\* by rec_len; each emitted name is the name_len bytes behind the 8-byte header.
Cex_C19_DirectoryDecoding ==
    call.op = "parse_entries" =>
        LET live == LiveRecords(call.arg)
            entries == call.res.val
        IN  /\ call.res.ok
            /\ Len(entries) = Len(live)
            /\ \A k \in 1..Len(live) :
                   /\ entries[k].inode = LeU32(call.arg, live[k])
                   /\ entries[k].name = NameAfterHeader(call.arg, live[k])

(************************ attribute areas and buffers ***********************)
MaxValueLen == 8
XAttrValueArea == [i \in 1..MaxValueLen |-> 100 + i]

\* An attribute area: header, one entry that varies, a second one whose value
\* is the first 4 bytes of the value area, the terminator, the value area.
XAttrArea(header, first, value_area_offs) ==
    header \o first
        \o XAttrEntryBytes(<<98>>, 6, value_area_offs, 0, 4)
        \o Zeros(XAttrEntryHeaderSize) \o XAttrValueArea

XAttrFirstEntries ==
    { XAttrEntryBytes(<<97>>, name_index, value_offs, value_inum, value_size) :
          name_index \in {1, 5}, value_inum \in {0, 7},
          value_offs \in {0, 16, 28, 36, 56, 60, 88, 92, 96},
          value_size \in {0, 4, 16, MaxValueLen} }

XAttrBuffers ==
    { [kind |-> "inline",
       bytes |-> XAttrArea(magic, first, 56)] :
          magic \in {XAttrMagicBytes, <<0, 0, 0, 0>>}, first \in XAttrFirstEntries }
    \cup
    { [kind |-> "block",
       bytes |-> XAttrArea(magic \o Zeros(XAttrHeaderSize - 4), first, 88)] :
          magic \in {XAttrMagicBytes, <<0, 0, 0, 0>>}, first \in XAttrFirstEntries }
    \cup
    { [kind |-> "block",
       bytes |-> SubSeq(XAttrMagicBytes \o Zeros(XAttrHeaderSize - 4), 1, n)] :
          n \in {0, 16, XAttrHeaderSize} }

InitXattr ==
    /\ img = <<>> /\ block_size = 0 /\ superblock = NoSuperblock
    /\ inode = MkInode(0, 0, 0, Zeros(15)) /\ last = NoCall /\ position = StartOfFile
    /\ stack = <<>> /\ yielded = <<>> /\ ended = FALSE
    /\ ExtractIdle /\ ConcIdle
    /\ volume = NoVolume
    /\ \E buffer \in XAttrBuffers :
           call = [op |-> buffer.kind, arg |-> buffer.bytes, res |-> Fail("", 0)]

\* Inode::parse reaching the attributes stored behind the inode's fields.
InlineXattrsCall ==
    /\ call.op = "inline"
    /\ \E res \in {InlineXattrs(call.arg)} :
           call' = [call EXCEPT !.op = "inline_parsed", !.res = res]
    /\ UNCHANGED <<img, block_size, volume, readVars, walkVars, extractVars, concVars>>

\* parse_xattrs_from_block(block), in a build with or without overflow checks.
ParseXattrsFromBlockCall ==
    /\ call.op = "block"
    /\ \E overflow_checks \in BOOLEAN :
       \E res \in {ParseXattrsFromBlock(call.arg, overflow_checks)} :
           call' = [call EXCEPT !.op = "block_parsed", !.res = res]
    /\ UNCHANGED <<img, block_size, volume, readVars, walkVars, extractVars, concVars>>

NextXattr == InlineXattrsCall \/ ParseXattrsFromBlockCall

SpecXattr == InitXattr /\ [][NextXattr]_vars

\* The value the attribute area holds for the entry: the value_size bytes at
\* base + value_offs when they lie inside the buffer, nothing otherwise.
ValueAt(buffer, base, header) ==
    IF base + header.value_offs + header.value_size <= Len(buffer)
    THEN Slice(buffer, base + header.value_offs,
               base + header.value_offs + header.value_size)
    ELSE <<>>

ValuesAt(base) ==
    \A k \in 1..Len(call.res.val) :
        LET entry == call.res.val[k]
        IN  (entry.header.value_inum = 0 /\ entry.header.value_size > 0)
                => entry.value = ValueAt(call.arg, base, entry.header)

\* In-inode attributes: the value is taken at 4 + value_offs of the trailer.
InlineValuesAtOffset ==
    (call.op = "inline_parsed" /\ call.res.ok) => ValuesAt(XAttrIbodyHeaderSize)

\* Block attributes whose values start behind the block header: the value is
\* taken at value_offs of the block, and the decoder does not panic.
BlockValuesBehindHeader ==
    (call.op = "block_parsed"
        /\ LeU16(call.arg, XAttrHeaderSize + 2) >= XAttrHeaderSize)
        => /\ call.res.err # "Panic"
           /\ call.res.ok => ValuesAt(0)

\* C20: the value of a decoded entry with value_inum = 0 and value_size > 0 is
\* the value_size bytes at offset 4 + value_offs of the inode trailer for
\* in-inode attributes and at offset value_offs of the block for block
\* attributes; a range that does not fit the buffer gives an empty value.
Cex_C20_XattrValueOffsets ==
    /\ (call.op = "inline_parsed" /\ call.res.ok) => ValuesAt(XAttrIbodyHeaderSize)
    /\ (call.op = "block_parsed" /\ call.res.ok) => ValuesAt(0)

\* The block handed to parse_xattrs_from_block is too short for the 32-byte
\* header, or its header does not start with the magic.
InvalidXattrBlock(block_data) ==
    \/ Len(block_data) < XAttrHeaderSize
    \/ Slice(block_data, 0, 4) # XAttrMagicBytes

\* A block too short for its header decodes to the empty list.
ShortXattrBlockIsEmpty ==
    (call.op = "block_parsed" /\ Len(call.arg) < XAttrHeaderSize)
        => call.res.ok /\ call.res.val = <<>>

\* C21: decoding an xattr block that is too short or whose header magic is
\* not 0xEA020000 returns the empty attribute list, not an error.
Cex_C21_InvalidXattrBlockIsEmpty ==
    (call.op = "block_parsed" /\ InvalidXattrBlock(call.arg))
        => call.res.ok /\ call.res.val = <<>>

(************************ entries of unknown file type **********************)
\* Modes of /d/f: a regular file, a fifo, and two modes whose file-type nibble
\* names no type (0 and 0x9).
FifoMode == 4516
NoTypeMode == 420
BadTypeMode == 37284
ModeScenarios ==
    [a_size : {5}, f_size : {0, 5}, d_kind : {"ok"}, e_kind : {"ok", "io"},
     z_ino : {8, 99}, g_ino : {3},
     f_mode : {RegMode, FifoMode, NoTypeMode, BadTypeMode}, xattr : {"none"},
     live : {AllLive}]

InitModes ==
    /\ block_size \in WalkBlockSizes
    /\ \E sc \in ModeScenarios : img = WalkImage(block_size, sc)
    /\ superblock = WalkSuperblock(block_size)
    /\ stack = WalkerFromRoot(img, block_size, superblock).val
    /\ inode = ReadInode(img, block_size, superblock, ROOT_INODE).val
    /\ yielded = <<>> /\ ended = FALSE /\ last = NoCall /\ position = StartOfFile
    /\ ExtractIdle /\ ConcIdle /\ CallIdle

\* WalkItem::type: file_type().expect(..) on the item yielded last.
WalkItemType(item) ==
    IF FileTypeFromMode(item.inode.mode) = "None" THEN Fail("Panic", 0)
    ELSE Res(FileTypeFromMode(item.inode.mode), 0)

WalkItemTypeCall ==
    /\ yielded # <<>> /\ yielded[Len(yielded)].kind = "Ok"
    /\ call' = [op |-> "type", arg |-> yielded[Len(yielded)].path,
                res |-> WalkItemType(yielded[Len(yielded)])]
    /\ UNCHANGED <<img, block_size, volume, readVars, walkVars, extractVars, concVars>>

NextModes == WalkerNextCall \/ WalkItemTypeCall

SpecModes == InitModes /\ [][NextModes]_vars

\* The entries after an entry of unknown type are still walked: when the walk
\* has emptied its stack without an error, /a (popped after everything below
\* /d) has been yielded.
WalkGoesOnAfterUnknownType ==
    (ended /\ stack = <<>> /\ (\A k \in 1..Len(yielded) : yielded[k].kind = "Ok"))
        => \E k \in 1..Len(yielded) : yielded[k].path = << <<97>> >>

\* C22: an entry whose inode mode has a zero or unrecognized file-type nibble
\* never appears as an item of the walk.
Cex_C22_UnknownTypeDropped ==
    \A k \in 1..Len(yielded) :
        yielded[k].kind = "Ok" => FileTypeFromMode(yielded[k].inode.mode) # "None"

(***************************** order of the walk ****************************)
ParentPath(path) == SubSeq(path, 1, Len(path) - 1)
IsBelow(path, dir_path) ==
    Len(dir_path) < Len(path) /\ SubSeq(path, 1, Len(dir_path)) = dir_path
Siblings(i, j) ==
    /\ yielded[i].path # <<>> /\ yielded[j].path # <<>>
    /\ ParentPath(yielded[i].path) = ParentPath(yielded[j].path)

\* The inode of the directory at dir_path: the root, or the inode of the item
\* yielded for that path.
DirInodeAt(dir_path) ==
    IF dir_path = <<>> THEN ReadInode(img, block_size, superblock, ROOT_INODE).val
    ELSE yielded[CHOOSE i \in OkItems : yielded[i].path = dir_path].inode

\* The position, among the records decoded from its directory's bytes, of the
\* record the item i was made from.
DiskIndex(i) ==
    LET records == ParseEntries(img, block_size,
                                DirInodeAt(ParentPath(yielded[i].path))).val
    IN  CHOOSE k \in 1..Len(records) : records[k].name = yielded[i].entry.name

\* C23: of two entries of one directory the one that comes later on disk is
\* yielded first; a directory's item is yielded before every item below it,
\* and every item below it is yielded before the directory's next sibling.
Thm_C23_WalkOrder ==
    /\ \A i, j \in OkItems :
           (i < j /\ Siblings(i, j)) => DiskIndex(i) > DiskIndex(j)
    /\ \A j \in OkItems :
           Len(yielded[j].path) > 1 =>
               \E i \in OkItems : i < j /\ yielded[i].path = ParentPath(yielded[j].path)
    /\ \A i, j, k \in OkItems :
           (i < k /\ Siblings(i, k) /\ IsBelow(yielded[j].path, yielded[i].path))
               => (i < j /\ j < k)

\* The walk is over: /d/e/g and /d/f were yielded after /d and before /a,
\* which comes before d in the root directory.
Witness_C23 ==
    /\ ended /\ stack = <<>>
    /\ \E i \in OkItems, j \in OkItems, k \in OkItems, l \in OkItems :
           /\ i < j /\ j < k /\ k < l
           /\ yielded[i].path = << <<100>> >>
           /\ yielded[j].path = << <<100>>, <<101>>, <<103>> >>
           /\ yielded[k].path = << <<100>>, <<102>> >>
           /\ yielded[l].path = << <<97>> >>

(***************************** the sidecar files ****************************)
\* The trees whose sidecars are examined: the bare tree (a root holding "."
\* and ".." only) and the tree of a and d, whose inodes carry a label or a
\* capability set, with f a regular file or an inode of no type.
SidecarScenarios ==
    [a_size : {5}, f_size : {5}, d_kind : {"ok"}, e_kind : {"ok"}, z_ino : {8},
     g_ino : {3}, f_mode : {RegMode, NoTypeMode},
     xattr : {"selinux", "caps"}, live : {{}, {3, 4}}]

InitSidecar ==
    /\ block_size \in WalkBlockSizes
    /\ \E sc \in SidecarScenarios : img = WalkImage(block_size, sc)
    /\ superblock = WalkSuperblock(block_size)
    /\ stack = WalkerFromRoot(img, block_size, superblock).val
    /\ inode = ReadInode(img, block_size, superblock, ROOT_INODE).val
    /\ yielded = <<>> /\ ended = FALSE /\ last = NoCall /\ position = StartOfFile
    /\ local = [w \in Workers |-> <<>>]
    /\ items = <<>> /\ attributes = <<>> /\ fsconfig = <<>> /\ contexts = <<>>
    /\ phase = "scan"
    /\ ConcIdle /\ CallIdle

SpecSidecar == InitSidecar /\ [][NextExtract]_vars

\* "/ 0 0 0755" and "<volume> 0 0 0755": the path of the line and its mode.
FixedLines ==
    << [path |-> <<>>, mode |-> << 48, 55, 53, 53 >>],
       [path |-> << MountName >>, mode |-> << 48, 55, 53, 53 >>] >>

\* C24: fs_config begins with the two fixed lines, in that order, before any
\* line of an entry; after a walk that yielded no item they are its only
\* lines and file_contexts is empty.
Thm_C24_FixedLinesFirst ==
    /\ fsconfig # <<>> =>
           /\ Len(fsconfig) >= 2 /\ SubSeq(fsconfig, 1, 2) = FixedLines
           /\ \A k \in 3..Len(fsconfig) : Len(fsconfig[k].path) >= 2
    /\ (phase = "done" /\ yielded = <<>>) =>
           fsconfig = FixedLines /\ contexts = <<>>

\* The run on a bare tree is over: no item, two lines, no context.
Witness_C24 ==
    /\ phase = "done" /\ ended /\ yielded = <<>>
    /\ Len(fsconfig) = 2 /\ contexts = <<>>

(***************************** capability sets *****************************)
\* Words of the enumerated capability values: 0, 0x2000, a word of eight
\* hexadecimal digits and a small high word.
CapWords == {0, 1, 8192, 268435456 + 10}
CapValueLens == {VfsCapDataSize - 1, VfsCapDataSize, VfsCapDataSize + 4}

\* An attribute whose full name is security.capability (by the security
\* prefix, or spelled out under the empty prefix) or security.selinux.
CapEntryNames ==
    { [name_index |-> 6, name |-> << 99, 97, 112, 97, 98, 105, 108, 105, 116, 121 >>],
       [name_index |-> 0, name |-> SecurityCapability],
       [name_index |-> 6, name |-> << 115, 101, 108, 105, 110, 117, 120 >>] }

CapEntries ==
    { [header |-> [name_len |-> Len(n.name), name_index |-> n.name_index,
                   value_offs |-> 0, value_inum |-> 0, value_size |-> len, hash |-> 0],
       name |-> n.name,
       value |-> SubSeq(VfsCapBytes(lo, hi) \o << 1, 2, 3, 4 >>, 1, len)] :
          n \in CapEntryNames, lo \in CapWords, hi \in CapWords, len \in CapValueLens }

InitCaps ==
    /\ img = <<>> /\ block_size = 0 /\ superblock = NoSuperblock
    /\ inode = MkInode(0, 0, 0, Zeros(15)) /\ last = NoCall /\ position = StartOfFile
    /\ stack = <<>> /\ yielded = <<>> /\ ended = FALSE
    /\ ExtractIdle /\ ConcIdle
    /\ volume = NoVolume
    /\ \E entry \in CapEntries, mode \in {RegMode, DirMode} :
           call = [op |-> "xattr", arg |-> [entry |-> entry, mode |-> mode],
                   res |-> Fail("", 0)]

\* The attributes of an item whose only xattr is the entry and, of these,
\* capabilities() and mode_with_caps().
ModeWithCapsCall ==
    /\ call.op = "xattr"
    /\ \E attr \in {EntryAttributes([mode |-> call.arg.mode,
                                       inline_xattrs |-> << call.arg.entry >>])} :
           call' = [call EXCEPT !.op = "mode_with_caps",
                                !.res = [caps |-> attr.capabilities,
                                         mode |-> ModeWithCaps(attr)]]
    /\ UNCHANGED <<img, block_size, volume, readVars, walkVars, extractVars, concVars>>

NextCaps == ModeWithCapsCall

SpecCaps == InitCaps /\ [][NextCaps]_vars

RECURSIVE HexValue(_)
\* The number a string of at most eight lower-case hexadecimal digits denotes.
HexValue(chars) ==
    IF chars = <<>> THEN 0
    ELSE LET c == chars[Len(chars)]
         IN  16 * HexValue(SubSeq(chars, 1, Len(chars) - 1))
                 + (IF c < 58 THEN c - 48 ELSE c - 87)

\* The halves of the 64-bit number a string of hexadecimal digits denotes.
HexHalves(chars) ==
    IF Len(chars) <= 8 THEN [hi |-> 0, lo |-> HexValue(chars)]
    ELSE [hi |-> HexValue(SubSeq(chars, 1, Len(chars) - 8)),
          lo |-> HexValue(SubSeq(chars, Len(chars) - 7, Len(chars)))]

\* The permission bits of the enumerated modes, as fs_config prints them.
OctalMode(mode) == IF mode = RegMode THEN << 48, 54, 52, 52 >> ELSE << 48, 55, 53, 53 >>

\* C25: for an attribute named security.capability whose value holds
\* magic_etc and two {permitted, inheritable} pairs, the capability is
\* (permitted[1] << 32) | permitted[0]; the line carries no suffix when it is
\* 0 or the value is shorter than 20 bytes, and otherwise the suffix
\* " capabilities=0x" followed by its hexadecimal digits.
Thm_C25_CapabilitySuffix ==
    (call.op = "mode_with_caps" /\ call.arg.entry.name # << 115, 101, 108, 105, 110, 117, 120 >>) =>
        LET value == call.arg.entry.value
            short == Len(value) < 20
            lo == IF short THEN 0 ELSE LeU32(value, 4)
            hi == IF short THEN 0 ELSE LeU32(value, 12)
            suffix == SubSeq(call.res.mode, 5, Len(call.res.mode))
            digits == SubSeq(suffix, 17, Len(suffix))
        IN  /\ SubSeq(call.res.mode, 1, 4) = OctalMode(call.arg.mode)
            /\ (short \/ (lo = 0 /\ hi = 0)) => (suffix = <<>> /\ ~call.res.caps.some)
            /\ ~(short \/ (lo = 0 /\ hi = 0)) =>
                   /\ call.res.caps.some /\ call.res.caps.val = suffix
                   /\ SubSeq(suffix, 1, 16) = << 32, 99, 97, 112, 97, 98, 105, 108, 105, 116, 105, 101, 115, 61, 48, 120 >>
                   /\ digits # <<>> /\ digits[1] # 48
                   /\ HexHalves(digits) = [hi |-> hi, lo |-> lo]

\* permitted[0] = 0x2000 and permitted[1] = 0: the line ends in
\* " capabilities=0x2000".
Witness_C25 ==
    /\ call.op = "mode_with_caps"
    /\ LeU32(call.arg.entry.value \o Zeros(20), 4) = 8192
    /\ call.res.mode = << 48, 54, 52, 52, 32, 99, 97, 112, 97, 98, 105, 108, 105, 116, 105, 101, 115, 61, 48, 120, 50, 48, 48, 48 >>

(***************************** written extents *****************************)
\* A read whose range lies inside one written extent returns the image bytes
\* of that extent at the right places.
ReadInsideOneExtent ==
    (IsDataCall /\ ExtentsBranch /\ last.res.ok /\ Len(LeafExtents) = 1
        /\ ~IsUnwritten(LeafExtents[1])
        /\ \A i \in 1..Len(last.res.val) :
               CoveredBy(LeafExtents[1], LogicalOffset(i) \div block_size))
        => \A i \in 1..Len(last.res.val) :
               last.res.val[i] =
                   img[StartBlock(LeafExtents[1]) * block_size
                       + (LogicalOffset(i) - LeafExtents[1].first_block * block_size) + 1]

\* C26: in the extents branch the byte returned for a logical offset o that a
\* written extent e covers is the image byte at
\* e.physical_start * block_size + (o - e.first_block * block_size), and it
\* stands at index o - offset of the result, also when the range begins
\* before the first extent it meets or the extents are separated by gaps.
Cex_C26_WrittenExtentBytes ==
    (IsDataCall /\ ExtentsBranch /\ last.res.ok) =>
        \A i \in 1..Len(last.res.val) :
            \A k \in 1..Len(LeafExtents) :
                (/\ CoveredBy(LeafExtents[k], LogicalOffset(i) \div block_size)
                 /\ ~IsUnwritten(LeafExtents[k]))
                => last.res.val[i] =
                       img[StartBlock(LeafExtents[k]) * block_size
                           + (LogicalOffset(i)
                                  - LeafExtents[k].first_block * block_size) + 1]

(***************************** indirect addressing *************************)
\* Block sizes of the images with full pointer chains: eight bytes, two
\* addresses per indirect block, so that the single, double and triple ranges
\* are 2, 4 and 8 blocks long and every quotient and remainder takes both values.
ResolveBlockSizes == {8}
ResolveBlocks == 12

\* An image of ResolveBlocks blocks whose blocks in DOMAIN ptrs hold the
\* pointer words ptrs[b] and whose other bytes are Fill.
PtrImage(bs, ptrs) ==
    [i \in 1..(ResolveBlocks * bs) |->
        LET p == i - 1
            b == p \div bs
        IN  IF b \in DOMAIN ptrs /\ (p % bs) < 4 * Len(ptrs[b])
            THEN ToLeBytes(ptrs[b][((p % bs) \div 4) + 1])[(p % 4) + 1]
            ELSE Fill(p)]

\* Inodes addressed through block 1 (single indirect), block 2 (double
\* indirect, over the indirect blocks 3 and 4) and block 5 (triple indirect,
\* over the double-indirect block 2); 6..9 are data blocks and 0 is a hole at
\* every level.  The size is in bytes: the direct blocks only, exactly the
\* blocks the three chains address, or two blocks more.
ResolveInputs(bs) ==
    {[inode |-> MkInode(RegMode, blocks * bs, 0,
                    <<6, 7>> \o Zeros(10) \o <<single, double, triple>>),
      img |-> PtrImage(bs, (1 :> <<s0, 7>>) @@ (2 :> <<d0, 4>>) @@ (3 :> <<6, 0>>)
                           @@ (4 :> <<8, 9>>) @@ (5 :> <<t0, 2>>))] :
        blocks \in {DIRECT_BLOCKS, 26, 28},
        single \in {0, 1}, double \in {0, 2}, triple \in {0, 5},
        s0 \in {0, 6}, d0 \in {0, 3}, t0 \in {0, 2}}

InitResolve ==
    /\ block_size \in ResolveBlockSizes
    /\ \E in \in ResolveInputs(block_size) : inode = in.inode /\ img = in.img
    /\ last = NoCall /\ position = StartOfFile
    /\ WalkIdle /\ ExtractIdle /\ ConcIdle /\ CallIdle

\* One turn of the loop of read_via_indirect: resolve_block for a logical
\* block of the file.  read_data clamps the range to the file size, so the
\* loop only reaches blocks that begin before the end of the file.
ResolveBlockCall ==
    /\ Fresh
    /\ \E logical_block \in 0..((InodeSize(inode) - 1) \div block_size) :
        /\ logical_block * block_size < InodeSize(inode)
        /\ last' = [op |-> "resolve_block", offset |-> logical_block, length |-> 1,
                    res |-> ResolveBlock(img, block_size, inode.block, logical_block)]
    /\ UNCHANGED <<img, block_size, callVars, inode, position, walkVars, extractVars,
                 concVars>>

NextResolve == ResolveBlockCall

SpecResolve == InitResolve /\ [][NextResolve]_vars

IsResolveCall == last.op = "resolve_block"
AddrPerBlock == block_size \div 4

\* The word indexes the address table names for logical block lbi, outermost
\* level first; past the triple range the triple row is continued.
WordIndexes(lbi) ==
    LET N == AddrPerBlock
        i == lbi - DIRECT_BLOCKS
        j == i - N
        k == j - N * N
    IN  IF lbi < DIRECT_BLOCKS THEN <<>>
        ELSE IF i < N THEN <<i>>
        ELSE IF j < N * N THEN <<j \div N, j % N>>
        ELSE <<k \div (N * N), (k \div N) % N, k % N>>

\* The inode.block slot the chain of logical block lbi starts from.
RootSlot(lbi) ==
    IF lbi < DIRECT_BLOCKS THEN lbi ELSE DIRECT_BLOCKS + Len(WordIndexes(lbi)) - 1

RECURSIVE Chain(_, _)
\* Following the words idxs from block ptr: the address reached and the blocks
\* read on the way; a zero pointer ends the chain with address 0, and a word
\* index that is not inside the block ends it with that index recorded.
Chain(ptr, idxs) ==
    IF ptr = 0 \/ idxs = <<>> THEN [addr |-> ptr, reads |-> 0, used |-> {}]
    ELSE IF Head(idxs) >= AddrPerBlock
    THEN [addr |-> 0, reads |-> 1, used |-> {Head(idxs)}]
    ELSE LET rest == Chain(LeU32(img, ptr * block_size + 4 * Head(idxs)), Tail(idxs))
         IN  [addr |-> rest.addr, reads |-> rest.reads + 1,
              used |-> rest.used \cup {Head(idxs)}]

TableAddress(lbi) == Chain(inode.block[RootSlot(lbi) + 1], WordIndexes(lbi))

InTable(lbi) ==
    lbi < DIRECT_BLOCKS + AddrPerBlock + AddrPerBlock * AddrPerBlock
              + AddrPerBlock * AddrPerBlock * AddrPerBlock

\* Inside the four ranges of the table resolve_block returns the address of
\* the table and reads one block per nonzero pointer of the chain, no more.
ResolveFollowsTable ==
    (IsResolveCall /\ InTable(last.offset))
        => /\ last.res.ok
           /\ last.res.val = TableAddress(last.offset).addr
           /\ last.res.nio = 2 * TableAddress(last.offset).reads
           /\ \A w \in TableAddress(last.offset).used : w < AddrPerBlock

\* C27: with N = block_size / 4, resolve_block returns block[lbi] below 12,
\* then the word of block[12], then the two-level chain of block[13], then the
\* three-level chain of block[14]; a zero pointer at any level gives 0 without
\* a further read; and every word index it uses is below N.
Cex_C27_ResolveBlockTable ==
    IsResolveCall
        => /\ InTable(last.offset) =>
                /\ last.res.ok
                /\ last.res.val = TableAddress(last.offset).addr
                /\ last.res.nio = 2 * TableAddress(last.offset).reads
           /\ \A w \in TableAddress(last.offset).used : w < AddrPerBlock
           /\ last.res.err # "Panic"

(***************************** the block size ******************************)
\* The log_block_size values of the enumerated superblocks: the values ext4
\* writes (0..6), every other shift amount below 32 but 21, and some of the
\* amounts from 32 on.  (1024 << 21 is 2^31: a u32, but not a number of the
\* checker, so that one amount is left out.)
LogBlockSizes == (0..20) \cup (22..40) \cup {63, 64, 65, 1000, 65536}

\* A two-block image: a zero boot block and a superblock of the given
\* log_block_size under the ext4 magic.
GeometryImage(log_block_size) ==
    Zeros(SUPERBLOCK_OFFSET)
    \o SuperblockBytes([magic |-> EXT4_SUPERBLOCK_MAGIC, blocks_count |-> 2,
                        log_block_size |-> log_block_size])

\* A four-byte file without the extents flag whose first block is block 1.
GeometryInode == MkInode(RegMode, 4, 0, <<1>> \o Zeros(14))

InitGeometry ==
    /\ \E n \in LogBlockSizes : img = GeometryImage(n)
    /\ block_size = 0 /\ superblock = NoSuperblock
    /\ inode = GeometryInode /\ last = NoCall /\ position = StartOfFile
    /\ stack = <<>> /\ yielded = <<>> /\ ended = FALSE
    /\ ExtractIdle /\ ConcIdle /\ CallIdle

\* InodeReader::new(volume).read_data(offset, length) on a constructed Volume:
\* the reader takes its block size from the volume.
VolumeReadDataCall ==
    /\ volume.state = "ok" /\ Fresh
    /\ \E offset \in 0..1, length \in 1..2 :
        last' = [op |-> "read_data", offset |-> offset, length |-> length,
                 res |-> ReadData(img, block_size, inode, offset, length)]
    /\ UNCHANGED <<img, block_size, callVars, inode, position, walkVars, extractVars,
                 concVars>>

NextGeometry == VolumeNewCall \/ VolumeReadDataCall

SpecGeometry == InitGeometry /\ [][NextGeometry]_vars

\* The log_block_size field of the image's superblock.
ImageLogBlockSize == LeU32(img, SUPERBLOCK_OFFSET + 24)

IsPowerOfTwo(n) == \E k \in 0..30 : n = 2 ^ k

\* 1024 * 2^n is a 32-bit number up to n = 21.
FitsU32(n) == n <= 21

\* Up to log_block_size 20 the volume is constructed with the block size
\* 1024 * 2^log_block_size, and a read on it does not panic.
BlockSizeExactWhenSmall ==
    (volume.state # "none" /\ ImageLogBlockSize <= 20)
        => /\ volume.state = "ok"
           /\ block_size = 1024 * (2 ^ ImageLogBlockSize)
           /\ last.res.err # "Panic"

\* C28: for every 32-bit log_block_size the block size of the volume is
\* 1024 * 2^log_block_size, reached without 32-bit overflow, a nonzero power
\* of two, so that a later division by it is defined.
Cex_C28_BlockSizePowerOfTwo ==
    volume.state # "none"
        => /\ volume.state = "ok"
           /\ FitsU32(ImageLogBlockSize)
           /\ block_size = 1024 * (2 ^ ImageLogBlockSize)
           /\ IsPowerOfTwo(block_size)
           /\ last.res.err # "Panic"

(***************************** the walker's stack ***************************)
IsLive(entry) == NameStr(entry) # Dot /\ NameStr(entry) # DotDot
HasLive(frame) == \E k \in 1..Len(frame.entries) : IsLive(frame.entries[k])

\* The frame next() takes its next entry from: frames whose entries are used
\* up, or are "." and ".." only, are popped on the way down to it.
PopFrame(st) ==
    CHOOSE k \in 1..Len(st) : HasLive(st[k]) /\ \A j \in (k + 1)..Len(st) : ~HasLive(st[j])

\* The entry it takes: the last one of the frame that is not "." or "..".
PopEntry(frame) ==
    frame.entries[CHOOSE k \in 1..Len(frame.entries) :
                      /\ IsLive(frame.entries[k])
                      /\ \A j \in (k + 1)..Len(frame.entries) : ~IsLive(frame.entries[j])]

\* The names in the directory at dir_path, decoded from the image.
NamesIn(dir_path) ==
    LET records == ParseEntries(img, block_size, DirInodeAt(dir_path)).val
    IN  {NameStr(records[k]) : k \in 1..Len(records)}

FramesChained ==
    stack # <<>> =>
        /\ stack[1].path = <<>>
        /\ \A k \in 2..Len(stack) :
               \E name \in NamesIn(stack[k - 1].path) :
                   stack[k].path = PathJoin(stack[k - 1].path, name)

ItemJoinsPoppedFrame ==
    (Len(yielded') = Len(yielded) + 1 /\ yielded'[Len(yielded')].kind = "Ok")
        => LET frame == stack[PopFrame(stack)]
               item == yielded'[Len(yielded')]
           IN  /\ item.entry = PopEntry(frame)
               /\ item.path = PathJoin(frame.path, NameStr(item.entry))

\* C29: the frames of the walker's stack form a parent chain, from the start
\* directory's path at the bottom, each frame's path being the path of the
\* frame below it joined with the name of one of that directory's entries;
\* and the path of every yielded item is the path of the frame its entry was
\* popped from joined with the entry's name.
Thm_C29_StackIsParentChain == []FramesChained /\ [][ItemJoinsPoppedFrame]_vars

\* The entry g has been yielded from the frame of /d/e, which stands on the
\* frames of /d and of /.
Witness_C29 ==
    /\ Len(stack) = 3 /\ stack[3].path = << <<100>>, <<101>> >>
    /\ yielded # <<>> /\ yielded[Len(yielded)].kind = "Ok"
    /\ yielded[Len(yielded)].path = << <<100>>, <<101>>, <<103>> >>

(***************************** files ****************************************)
\* Largest distance of a position from 0 or from 2^63 the calls are followed to.
MaxPosition == 12

\* The files: two files addressed by direct pointers, one empty and one of six
\* bytes with a hole in its second block; a nine-byte file with one written
\* extent for its second block; a six-byte symlink.
FileInputs(bs) ==
    {[inode |-> MkInode(RegMode, size, 0, <<1, 0, 3>> \o Zeros(12)),
      img |-> MkImage(bs, 0, <<>>)] : size \in {0, 6}}
    \cup {[inode |-> MkInode(RegMode, 9, FlagExtents,
                        ExtentRoot(<<[first_block |-> 1, block_count |-> 1,
                                      start_hi |-> 0, start_lo |-> 1]>>)),
           img |-> MkImage(bs, 0, <<>>)],
          [inode |-> MkInode(SymlinkMode, 6, 0, SymlinkBlock),
           img |-> MkImage(bs, 0, <<>>)]}

\* The arguments of seek: offsets around 0, and 2^63, u64::MAX, i64::MAX,
\* i64::MIN.
SeekFroms ==
    [whence : {"Start"}, offset : {Big(0, 0), Big(0, 2), Big(0, 10), Big(2, 0), Big(4, -1)}]
    \cup [whence : {"End", "Current"},
          offset : {Big(0, 0), Big(0, -1), Big(0, 1), Big(0, -10), Big(2, -1), Big(-2, 0)}]

\* File::new(volume, inode, path) on a regular file or a symlink.
InitFile ==
    /\ block_size \in BlockSizes
    /\ \E in \in FileInputs(block_size) : inode = in.inode /\ img = in.img
    /\ last = NoCall /\ position = StartOfFile
    /\ WalkIdle /\ ExtractIdle /\ ConcIdle /\ CallIdle

\* file.read(&mut buf) with a buffer of buf_len bytes
FileReadCall ==
    /\ \E buf_len \in 0..3 :
       \E r \in {FileReadAt(img, block_size, inode, position, buf_len)} :
        /\ last' = [op |-> "read", offset |-> position, length |-> buf_len, res |-> r]
        /\ position' = r.position
    /\ UNCHANGED <<img, block_size, callVars, inode, walkVars, extractVars, concVars>>

\* file.seek(seek_from)
FileSeekCall ==
    /\ \E seek_from \in SeekFroms, overflow_checks \in BOOLEAN :
       \E r \in {FileSeek(inode, position, seek_from, overflow_checks)} :
        /\ r.position.d \in (-MaxPosition)..MaxPosition
        /\ last' = [op |-> "seek", offset |-> position, length |-> 0,
                    seek_from |-> seek_from, res |-> r]
        /\ position' = r.position
    /\ UNCHANGED <<img, block_size, callVars, inode, walkVars, extractVars, concVars>>

\* file.read_all()
FileReadAllCall ==
    /\ \E r \in {FileReadAll(img, block_size, inode)} :
        /\ last' = [op |-> "file_read_all", offset |-> position, length |-> 0, res |-> r]
        /\ position' = r.position
    /\ UNCHANGED <<img, block_size, callVars, inode, walkVars, extractVars, concVars>>

NextFile == FileReadCall \/ FileSeekCall \/ FileReadAllCall

SpecFile == InitFile /\ [][NextFile]_vars

\* Byte o (0-based) of the file's content: for a fast symlink the byte of
\* inode.block, for an extents file the image byte of the written extent that
\* covers o and 0 where none does, else the byte of the resolved block, 0 in a
\* hole.
FileByte(o) ==
    IF IsFastSymlink(inode) THEN InlineByte(o)
    ELSE IF UsesExtents(inode)
    THEN LET hits == {k \in 1..Len(LeafExtents) :
                         CoveredBy(LeafExtents[k], o \div block_size)
                             /\ ~IsUnwritten(LeafExtents[k])}
         IN  IF hits = {} THEN 0
             ELSE LET e == LeafExtents[CHOOSE k \in hits : TRUE]
                  IN  img[StartBlock(e) * block_size
                          + (o - e.first_block * block_size) + 1]
    ELSE LET p == ResolveBlock(img, block_size, inode.block, o \div block_size).val
         IN  IF p = 0 THEN 0 ELSE img[p * block_size + (o % block_size) + 1]

FileBytes(a, b) == [i \in 1..(b - a) |-> FileByte(a + i - 1)]

\* The position a seek asks for: the offset itself, or the size or the
\* position plus the offset, as numbers.
SeekTarget ==
    CASE last.seek_from.whence = "Start" -> last.seek_from.offset
      [] last.seek_from.whence = "End" ->
             BigAdd(Big(0, InodeSize(inode)), last.seek_from.offset)
      [] last.seek_from.whence = "Current" -> BigAdd(last.offset, last.seek_from.offset)

ReadAsClaimed ==
    last.op = "read" =>
        LET S == InodeSize(inode)
            p == last.offset
            n == Min(last.length, S - p.d)
        IN  IF ~BigLess(p, Big(0, S))
            THEN last.res.ok /\ last.res.val = <<>> /\ position = p
            ELSE /\ last.res.ok /\ last.res.val = FileBytes(p.d, p.d + n)
                 /\ position = Big(0, p.d + n) /\ p.d + n <= S

SeekAsClaimed ==
    last.op = "seek" =>
        IF BigLess(SeekTarget, Big(0, 0))
        THEN ~last.res.ok /\ last.res.err = "InvalidInput" /\ position = last.offset
        ELSE last.res.ok /\ position = SeekTarget

ReadAllAsClaimed ==
    last.op = "file_read_all" =>
        /\ last.res.ok /\ last.res.val = FileBytes(0, InodeSize(inode))
        /\ position = StartOfFile

\* What read_all has returned is what the reads from position 0, with a buffer
\* of any length, add up to when the first empty read ends them.
ReadsAddUpToReadAll ==
    last.op = "file_read_all" =>
        \A buf_len \in 1..3 :
            LET reads == ReadToEnd(img, block_size, inode, buf_len,
                                   [position |-> 0, acc |-> <<>>, nio |-> 0])
            IN  reads.ok /\ last.res.ok /\ reads.val = last.res.val

\* The files every byte of which is mapped by the direct pointers or held in
\* the inode, and the seeks whose operands and target are below 2^62.
PlainFile == ~UsesExtents(inode) /\ InodeSize(inode) > 0
PlainSeek == last.op = "seek" => (last.seek_from.offset.k = 0 /\ last.offset.k = 0)

\* On a plain file, and for plain seeks, every call does what is claimed.
FileCallsOnPlainFiles ==
    (PlainFile /\ PlainSeek)
        => ReadAsClaimed /\ SeekAsClaimed /\ ReadAllAsClaimed /\ ReadsAddUpToReadAll

\* C30: on a File of size S a read at or past S returns 0 bytes and leaves the
\* position; a read at p < S returns the min(buffer length, S - p) bytes of the
\* file from p on and advances the position by as many; a seek to a negative
\* target fails with InvalidInput and leaves the position, a seek to any other
\* target sets the position to it; read_all returns the whole content and sets
\* the position to 0; and the reads from 0 up to the first empty one add up to
\* what read_all returns.
Cex_C30_FileCalls ==
    ReadAsClaimed /\ SeekAsClaimed /\ ReadAllAsClaimed /\ ReadsAddUpToReadAll

====
